---- MODULE Spec2Model ----
(***************************************************************************)
(* Model of the Discord AI assistant bot: the MessageCreate policy of      *)
(* server/discord/bot.ts, the reply pipeline of server/discord/handler.ts  *)
(* and server/discord/slashCommands.ts, the storage layer of               *)
(* server/storage.ts, the settings route of server/routes.ts and the       *)
(* chunking function splitMessage.                                         *)
(*                                                                         *)
(* Texts are sequences of one-character strings.  A query result that the  *)
(* source destructures as "const [row] = await db.select()..." is a        *)
(* sequence of zero or one rows: <<>> is the source's undefined.           *)
(***************************************************************************)
EXTENDS Integers, Sequences, FiniteSets, TLC

VARIABLES
  settings,       \* the settings table: a set of rows, guildId unique
  users,          \* the users table
  conversations,  \* the conversations table, in creation order
  messages,       \* the messages table, in creation order
  botStats,       \* the result of getBotStats(): <<>> or the one row
  last,           \* the event handled last and what its handler did
  lastToggle,     \* history: per channel, the last /activate or /deactivate
                  \* that succeeded and is not yet superseded
  text,           \* splitMessage: the input text
  maxLength,      \* splitMessage: the input maxLength
  chunks,         \* splitMessage(text, maxLength)
  rechunked,      \* splitMessage of every chunk
  step,           \* splitMessage: "input", "split" or "rechunked"
  call,           \* generateAIResponse: the arguments and the outcome of the
                  \* completion call
  result,         \* generateAIResponse: <<>> or the request made and the
                  \* text returned
  procs,          \* interleaved handlers: per handler, the await it is at
                  \* and what it holds in its local variables
  run,            \* failing calls: the event handled last, the calls its
                  \* handler made and whether an exception left the handler
  voiceConnections, \* the Map of slashCommands.ts: <<guildId, connection>>
  voiceLibrary    \* the connections @discordjs/voice tracks, per guild

vars == <<settings, users, conversations, messages, botStats, last, lastToggle,
          text, maxLength, chunks, rechunked, step, call, result, procs,
          run, voiceConnections, voiceLibrary>>

storeVars == <<settings, users, conversations, messages, botStats, last, lastToggle>>
chunkVars == <<text, maxLength, chunks, rechunked, step>>
callVars == <<call, result>>
raceVars == <<procs>>
runVars == <<run>>
voiceVars == <<voiceConnections, voiceLibrary>>

(***************************************************************************)
(* Bounds of the model.                                                    *)
(***************************************************************************)
MaxTextLen == 5
MaxChunkLen == 3
MaxTurns == 1
MaxTalkTurns == 12
MaxContextLen == 2
MaxRaceOps == 2
MaxFailTurns == 1
MaxFailSends == 2
MaxVoiceJoins == 2
MaxConvTurns == 3
MaxLiveTurns == 2

(***************************************************************************)
(* JavaScript string primitives used by splitMessage.                      *)
(***************************************************************************)
Whitespace == {" ", "\n", "\t", "\r"}

Min(a, b) == IF a < b THEN a ELSE b

\* String.prototype.substring(from, to) with 0-based, end-exclusive indices.
Substring(s, from, to) ==
  LET f == Min(from, Len(s))
      t == Min(to, Len(s))
  IN  IF f >= t THEN <<>> ELSE SubSeq(s, f + 1, t)

\* String.prototype.substring(from): the rest of the string.
SubstringFrom(s, from) == Substring(s, from, Len(s))

\* String.prototype.trimStart(): the text from its first character that is
\* not white space.
TrimStart(s) ==
  IF \A i \in 1..Len(s) : s[i] \in Whitespace THEN <<>>
  ELSE LET first == CHOOSE i \in 1..Len(s) :
                      /\ s[i] \notin Whitespace
                      /\ \A j \in 1..(i - 1) : s[j] \in Whitespace
       IN  SubSeq(s, first, Len(s))

\* String.prototype.trimEnd(): the text up to its last character that is
\* not white space.
TrimEnd(s) ==
  IF \A i \in 1..Len(s) : s[i] \in Whitespace THEN <<>>
  ELSE LET final == CHOOSE i \in 1..Len(s) :
                      /\ s[i] \notin Whitespace
                      /\ \A j \in (i + 1)..Len(s) : s[j] \in Whitespace
       IN  SubSeq(s, 1, final)

\* String.prototype.trim()
Trim(s) == TrimEnd(TrimStart(s))

\* The position of the k-th newline of s; 0 before the first line and
\* Len(s) + 1 after the last.
NewlineAt(s, k) ==
  LET newlines == {i \in 1..Len(s) : s[i] = "\n"}
  IN  IF k = 0 THEN 0
      ELSE IF k > Cardinality(newlines) THEN Len(s) + 1
      ELSE CHOOSE i \in newlines : Cardinality({j \in newlines : j < i}) = k - 1

\* text.split('\n'): the lines between the newlines, always at least one.
Split(s) ==
  LET count == Cardinality({i \in 1..Len(s) : s[i] = "\n"})
  IN  [k \in 1..(count + 1) |->
         SubSeq(s, NewlineAt(s, k - 1) + 1, NewlineAt(s, k) - 1)]

(***************************************************************************)
(* splitMessage (handler.ts 83-120, the same text in slashCommands.ts).    *)
(***************************************************************************)

\* Mutant: what is left of the line after its last full slice is not kept.
RECURSIVE HardSplit_losesRemainder(_, _, _)
HardSplit_losesRemainder(remainingLine, max, acc) ==
  IF Len(remainingLine) > max
    THEN HardSplit_losesRemainder(SubstringFrom(remainingLine, max), max,
                                  Append(acc, Substring(remainingLine, 0, max)))
    ELSE [chunks |-> acc, currentChunk |-> <<>>]

\* while (remainingLine.length > maxLength) { push slice; cut } : the state
\* after the loop, as [chunks, currentChunk].
RECURSIVE HardSplit(_, _, _)
HardSplit(remainingLine, max, acc) ==
  IF Len(remainingLine) > max
    THEN HardSplit(SubstringFrom(remainingLine, max), max,
                   Append(acc, Substring(remainingLine, 0, max)))
    ELSE [chunks |-> acc, currentChunk |-> remainingLine]

\* Mutant: a chunk that ends with white space is not pushed.
FlushChunk_skipsPadded(acc, currentChunk) ==
  IF Trim(currentChunk) # <<>> /\ TrimEnd(currentChunk) = currentChunk
    THEN Append(acc, Trim(currentChunk)) ELSE acc

\* if (currentChunk.trim()) chunks.push(currentChunk.trim())
FlushChunk(acc, currentChunk) ==
  IF Trim(currentChunk) # <<>> THEN Append(acc, Trim(currentChunk)) ELSE acc

\* Mutant: the separating newline is not counted.
SplitLineStep_noSeparator(st, line, max) ==
  IF Len(st.currentChunk) + Len(line) > max
    THEN LET flushed == FlushChunk(st.chunks, st.currentChunk)
         IN  IF Len(line) > max
               THEN HardSplit(line, max, flushed)
               ELSE [chunks |-> flushed, currentChunk |-> line]
    ELSE IF Len(st.currentChunk) > 0
           THEN [chunks |-> st.chunks,
                 currentChunk |-> st.currentChunk \o <<"\n">> \o line]
           ELSE [chunks |-> st.chunks, currentChunk |-> line]

\* Mutant: a line that does not fit fills the current chunk up to maxLength
\* and goes on in the next one, whatever its length.
SplitLineStep_fillsChunk(st, line, max) ==
  IF Len(st.currentChunk) + Len(line) + 1 > max
    THEN LET room == max - Len(st.currentChunk)
             full == FlushChunk(st.chunks, st.currentChunk \o Substring(line, 0, room))
         IN  HardSplit(SubstringFrom(line, room), max, full)
    ELSE IF Len(st.currentChunk) > 0
           THEN [chunks |-> st.chunks,
                 currentChunk |-> st.currentChunk \o <<"\n">> \o line]
           ELSE [chunks |-> st.chunks, currentChunk |-> line]

\* One iteration of "for (const line of lines)".
SplitLineStep(st, line, max) ==
  IF Len(st.currentChunk) + Len(line) + 1 > max
    THEN LET flushed == FlushChunk(st.chunks, st.currentChunk)
         IN  IF Len(line) > max
               THEN HardSplit(line, max, flushed)
               ELSE [chunks |-> flushed, currentChunk |-> line]
    ELSE IF Len(st.currentChunk) > 0
           THEN [chunks |-> st.chunks,
                 currentChunk |-> st.currentChunk \o <<"\n">> \o line]
           ELSE [chunks |-> st.chunks, currentChunk |-> line]

RECURSIVE SplitLoop(_, _, _, _)
SplitLoop(lines, i, st, max) ==
  IF i > Len(lines) THEN st
  ELSE SplitLoop(lines, i + 1, SplitLineStep(st, lines[i], max), max)

\* Mutant: a text of exactly maxLength characters is not returned early.
FitsInOne_strict(s, max) == Len(s) < max

\* The guard of the early return, "text.length <= maxLength".
FitsInOne(s, max) == Len(s) <= max

splitMessage(s, max) ==
  IF FitsInOne(s, max) THEN <<s>>
  ELSE LET st  == SplitLoop(Split(s), 1, [chunks |-> <<>>, currentChunk |-> <<>>], max)
           out == FlushChunk(st.chunks, st.currentChunk)
       IN  IF Len(out) > 0 THEN out ELSE <<Substring(s, 0, max)>>

(***************************************************************************)
(* Identities and inputs of the events.                                    *)
(***************************************************************************)
NoGuild == ""
Guilds == {"g1"}
\* The guilds the events come from.
EventGuilds == Guilds
Channels == {"c1", "c2"}
UserIds == {"u1"}
Modes == {"disabled", "enabled", "required", "activated"}

\* message.guild?.id || 'DM'
GuildKey(g) == IF g = NoGuild THEN "DM" ELSE g

\* An optional value: <<>> is undefined, <<v>> is v.
Some(v) == <<v>>
OrElse(opt, default) == IF opt = <<>> THEN default ELSE opt[1]

Includes(list, x) == \E i \in 1..Len(list) : list[i] = x

\* String.prototype.includes(needle)
StringIncludes(s, needle) ==
  \E i \in 0..(Len(s) - Len(needle)) : SubSeq(s, i + 1, i + Len(needle)) = needle

(***************************************************************************)
(* Fixed texts of server/openai/client.ts and of the handlers.             *)
(***************************************************************************)
RateLimitNeedle ==
  <<"r", "a", "t", "e", " ", "l", "i", "m", "i", "t">>

ApiKeyNeedle ==
  <<"A", "P", "I", " ", "k", "e", "y">>

RateLimitApology ==
  <<"I", "'", "m", " ", "c", "u", "r", "r", "e", "n", "t", "l", "y", " ",
    "e", "x", "p", "e", "r", "i", "e", "n", "c", "i", "n", "g", " ", "h",
    "i", "g", "h", " ", "d", "e", "m", "a", "n", "d", ".", " ", "P", "l",
    "e", "a", "s", "e", " ", "t", "r", "y", " ", "a", "g", "a", "i", "n",
    " ", "i", "n", " ", "a", " ", "m", "o", "m", "e", "n", "t", ".">>

ConfigurationApology ==
  <<"T", "h", "e", "r", "e", "'", "s", " ", "a", "n", " ", "i", "s", "s",
    "u", "e", " ", "w", "i", "t", "h", " ", "m", "y", " ", "c", "o", "n",
    "f", "i", "g", "u", "r", "a", "t", "i", "o", "n", ".", " ", "P", "l",
    "e", "a", "s", "e", " ", "c", "o", "n", "t", "a", "c", "t", " ", "t",
    "h", "e", " ", "s", "e", "r", "v", "e", "r", " ", "a", "d", "m", "i",
    "n", "i", "s", "t", "r", "a", "t", "o", "r", ".">>

UnknownErrorApology ==
  <<"I", " ", "e", "n", "c", "o", "u", "n", "t", "e", "r", "e", "d", " ",
    "a", "n", " ", "e", "r", "r", "o", "r", " ", "w", "h", "i", "l", "e",
    " ", "p", "r", "o", "c", "e", "s", "s", "i", "n", "g", " ", "y", "o",
    "u", "r", " ", "r", "e", "q", "u", "e", "s", "t", ".", " ", "P", "l",
    "e", "a", "s", "e", " ", "t", "r", "y", " ", "a", "g", "a", "i", "n",
    " ", "l", "a", "t", "e", "r", ".">>

NoResponseText ==
  <<"I", " ", "a", "p", "o", "l", "o", "g", "i", "z", "e", ",", " ", "b",
    "u", "t", " ", "I", " ", "c", "o", "u", "l", "d", "n", "'", "t", " ",
    "g", "e", "n", "e", "r", "a", "t", "e", " ", "a", " ", "r", "e", "s",
    "p", "o", "n", "s", "e", ".", " ", "P", "l", "e", "a", "s", "e", " ",
    "t", "r", "y", " ", "a", "g", "a", "i", "n", ".">>

HandlerErrorReply ==
  <<"S", "o", "r", "r", "y", ",", " ", "I", " ", "e", "n", "c", "o", "u",
    "n", "t", "e", "r", "e", "d", " ", "a", "n", " ", "e", "r", "r", "o",
    "r", " ", "w", "h", "i", "l", "e", " ", "p", "r", "o", "c", "e", "s",
    "s", "i", "n", "g", " ", "y", "o", "u", "r", " ", "m", "e", "s", "s",
    "a", "g", "e", ".", " ", "P", "l", "e", "a", "s", "e", " ", "t", "r",
    "y", " ", "a", "g", "a", "i", "n", " ", "l", "a", "t", "e", "r", ".">>

CommandErrorReply ==
  <<"S", "o", "r", "r", "y", ",", " ", "I", " ", "e", "n", "c", "o", "u",
    "n", "t", "e", "r", "e", "d", " ", "a", "n", " ", "e", "r", "r", "o",
    "r", " ", "w", "h", "i", "l", "e", " ", "g", "e", "n", "e", "r", "a",
    "t", "i", "n", "g", " ", "a", " ", "r", "e", "s", "p", "o", "n", "s",
    "e", ".">>

(***************************************************************************)
(* server/storage.ts: settings.                                            *)
(***************************************************************************)

\* Mutant: a new guild starts in the slash-commands-only mode.
SettingsDefaults_required(guildId) ==
  [guildId           |-> guildId,
   prefix            |-> "",
   responseLength    |-> "medium",
   personality       |-> "helpful",
   codeFormat        |-> TRUE,
   allowedChannels   |-> <<>>,
   channelMode       |-> "all",
   slashCommandMode  |-> "required",
   activatedChannels |-> <<>>]

\* The column defaults of the settings table (shared/schema.ts 29-42).
SettingsDefaults(guildId) ==
  [guildId           |-> guildId,
   prefix            |-> "",
   responseLength    |-> "medium",
   personality       |-> "helpful",
   codeFormat        |-> TRUE,
   allowedChannels   |-> <<>>,
   channelMode       |-> "all",
   slashCommandMode  |-> "disabled",
   activatedChannels |-> <<>>]

\* An InsertSettings value: guildId is required, every other field optional.
InsertOf(row) ==
  [guildId           |-> row.guildId,
   prefix            |-> Some(row.prefix),
   responseLength    |-> Some(row.responseLength),
   personality       |-> Some(row.personality),
   codeFormat        |-> Some(row.codeFormat),
   allowedChannels   |-> Some(row.allowedChannels),
   channelMode       |-> Some(row.channelMode),
   slashCommandMode  |-> Some(row.slashCommandMode),
   activatedChannels |-> Some(row.activatedChannels)]

\* The row after ".set({...insertSettings})" / ".values(insertSettings)":
\* a field that is present replaces the column, an absent one keeps it.
ApplyInsert(row, ins) ==
  [guildId           |-> ins.guildId,
   prefix            |-> OrElse(ins.prefix, row.prefix),
   responseLength    |-> OrElse(ins.responseLength, row.responseLength),
   personality       |-> OrElse(ins.personality, row.personality),
   codeFormat        |-> OrElse(ins.codeFormat, row.codeFormat),
   allowedChannels   |-> OrElse(ins.allowedChannels, row.allowedChannels),
   channelMode       |-> OrElse(ins.channelMode, row.channelMode),
   slashCommandMode  |-> OrElse(ins.slashCommandMode, row.slashCommandMode),
   activatedChannels |-> OrElse(ins.activatedChannels, row.activatedChannels)]

getSettingsByGuildId(tbl, guildId) ==
  LET found == {r \in tbl : r.guildId = guildId}
  IN  IF found = {} THEN <<>> ELSE <<CHOOSE r \in found : TRUE>>

\* A stored row: the columns and the serial primary key.
WithId(id, row) ==
  [id                |-> id,
   guildId           |-> row.guildId,
   prefix            |-> row.prefix,
   responseLength    |-> row.responseLength,
   personality       |-> row.personality,
   codeFormat        |-> row.codeFormat,
   allowedChannels   |-> row.allowedChannels,
   channelMode       |-> row.channelMode,
   slashCommandMode  |-> row.slashCommandMode,
   activatedChannels |-> row.activatedChannels]

\* "db.update(settings).set({...insertSettings}).where(eq(settings.guildId,
\* insertSettings.guildId))"
updateSettings(tbl, ins) ==
  {IF r.guildId = ins.guildId THEN WithId(r.id, ApplyInsert(r, ins)) ELSE r : r \in tbl}

\* Mutant: the guildId column has no unique constraint.
insertSettings_notUnique(tbl, ins) ==
  [ok  |-> TRUE,
   tbl |-> tbl \cup {WithId(Cardinality(tbl) + 1,
                            ApplyInsert(SettingsDefaults(ins.guildId), ins))}]

\* "db.insert(settings).values(insertSettings)": guildId is unique, the
\* insert of a second row of a guild throws.
insertSettings(tbl, ins) ==
  IF \E r \in tbl : r.guildId = ins.guildId
    THEN [ok |-> FALSE, tbl |-> tbl]
    ELSE [ok  |-> TRUE,
          tbl |-> tbl \cup {WithId(Cardinality(tbl) + 1,
                                   ApplyInsert(SettingsDefaults(ins.guildId), ins))}]

\* The settings table after createOrUpdateSettings(insertSettings).
createOrUpdateSettings(tbl, ins) ==
  IF getSettingsByGuildId(tbl, ins.guildId) # <<>>
    THEN updateSettings(tbl, ins)
    ELSE insertSettings(tbl, ins).tbl

(***************************************************************************)
(* server/storage.ts: users, conversations, messages, bot statistics.      *)
(***************************************************************************)
getUserByDiscordId(tbl, discordId) ==
  LET found == {r \in tbl : r.discordId = discordId}
  IN  IF found = {} THEN <<>> ELSE <<CHOOSE r \in found : TRUE>>

createUser(tbl, discordId) == tbl \cup {[discordId |-> discordId, username |-> discordId]}

\* Mutant: the lookup finds nothing.
getConversationByChannelAndUser_none(tbl, channelId, userId) == <<>>

\* Mutant: the rows are ordered by createdAt ascending.
getConversationByChannelAndUser_oldest(tbl, channelId, userId) ==
  LET idx == {i \in 1..Len(tbl) : tbl[i].channelId = channelId /\ tbl[i].userId = userId}
  IN  IF idx = {} THEN <<>>
      ELSE <<tbl[CHOOSE i \in idx : \A j \in idx : i <= j]>>

\* Rows are kept in creation order; "orderBy(desc(createdAt)).limit(1)" is
\* the last matching row.
getConversationByChannelAndUser(tbl, channelId, userId) ==
  LET idx == {i \in 1..Len(tbl) : tbl[i].channelId = channelId /\ tbl[i].userId = userId}
  IN  IF idx = {} THEN <<>>
      ELSE <<tbl[CHOOSE i \in idx : \A j \in idx : j <= i]>>

createConversation(tbl, userId, channelId, guildId) ==
  Append(tbl, [id |-> Len(tbl) + 1, userId |-> userId,
               channelId |-> channelId, guildId |-> guildId])

IsOfConversation(conversationId, m) == m.conversationId = conversationId

getMessagesByConversation(tbl, conversationId) ==
  LET Keep(m) == IsOfConversation(conversationId, m)
  IN  SelectSeq(tbl, Keep)

createMessage(tbl, conversationId, content, role) ==
  Append(tbl, [id |-> Len(tbl) + 1, conversationId |-> conversationId,
               content |-> content, role |-> role])

\* Mutant: the window is taken from the start of the list, slice(0, n).
SliceLast_head(list, n) ==
  IF Len(list) <= n THEN list ELSE SubSeq(list, 1, n)

\* Array.prototype.slice(-n)
SliceLast(list, n) ==
  IF Len(list) <= n THEN list ELSE SubSeq(list, Len(list) - n + 1, Len(list))

ContextSize == 10

\* botStats is the result of getBotStats(): <<>> or the single row.
StatsDefaults ==
  [totalServers |-> 0, totalMessages |-> 0, activeConversations |-> 0,
   apiCalls |-> 0, uptime |-> 0]

\* updateBotStats({totalMessages, apiCalls})
updateBotStatsTurn(stats, totalMessages, apiCalls) ==
  LET base == OrElse(stats, StatsDefaults)
  IN  <<[base EXCEPT !.totalMessages = totalMessages, !.apiCalls = apiCalls]>>

\* updateBotStats({totalServers, uptime: 0}) of the ClientReady handler
updateBotStatsReady(stats, totalServers) ==
  LET base == OrElse(stats, StatsDefaults)
  IN  <<[base EXCEPT !.totalServers = totalServers, !.uptime = 0]>>

\* "(await storage.getBotStats())?.totalMessages ?? 0 + 1": the operator +
\* binds tighter than ??, so the fallback is 0 + 1.
TurnTotalMessages(stats) == IF stats = <<>> THEN 0 + 1 ELSE stats[1].totalMessages
TurnApiCalls(stats) == IF stats = <<>> THEN 0 + 1 ELSE stats[1].apiCalls

(***************************************************************************)
(* server/openai/client.ts: generateAIResponse.                            *)
(***************************************************************************)
BasePrompt == "You are a helpful AI assistant in a Discord server. "

\* switch (personality)
PersonalityClause(personality) ==
  CASE personality = <<"friendly">> ->
         "Be warm, casual, and use friendly language. Use emojis occasionally to show enthusiasm. "
    [] personality = <<"technical">> ->
         "Be precise, technical, and detailed in your responses. Focus on accuracy and provide code examples when relevant. "
    [] personality = <<"creative">> ->
         "Be imaginative, creative, and think outside the box. Encourage creative thinking and exploration. "
    [] OTHER -> "Be helpful, clear, and informative. "

\* Mutant: the balanced clause is a case of its own, 'medium', and the
\* default is the concise clause.
LengthClause_defaultConcise(responseLength) ==
  CASE responseLength = <<"medium">> ->
         "Provide balanced responses that are informative but not overly long."
    [] responseLength = <<"detailed">> ->
         "Provide comprehensive and detailed responses with examples and explanations."
    [] OTHER -> "Keep responses brief and to the point. Aim for 1-2 sentences when possible."

\* switch (responseLength)
LengthClause(responseLength) ==
  CASE responseLength = <<"concise">> ->
         "Keep responses brief and to the point. Aim for 1-2 sentences when possible."
    [] responseLength = <<"detailed">> ->
         "Provide comprehensive and detailed responses with examples and explanations."
    [] OTHER -> "Provide balanced responses that are informative but not overly long."

SystemPrompt(personality, responseLength) ==
  BasePrompt \o PersonalityClause(personality) \o LengthClause(responseLength)

\* Mutant: the ternary tests 'medium' and falls through to the concise limit.
MaxTokens_elseConcise(responseLength) ==
  IF responseLength = <<"detailed">> THEN 1500
  ELSE IF responseLength = <<"medium">> THEN 1000 ELSE 500

MaxTokens(responseLength) ==
  IF responseLength = <<"detailed">> THEN 1500
  ELSE IF responseLength = <<"concise">> THEN 500 ELSE 1000

\* The sampling temperature in tenths: 0.8 is 8, 0.7 is 7.
TemperatureTenths(personality) == IF personality = <<"creative">> THEN 8 ELSE 7

\* Mutant: the current message is appended without the look at the context.
ConversationMessages_alwaysAppends(message, contextMessages, personality, responseLength) ==
  LET system  == <<[role |-> "system", content |-> <<>>,
                    system |-> SystemPrompt(personality, responseLength)]>>
      context == [i \in 1..Len(contextMessages) |->
                    [role |-> contextMessages[i].role,
                     content |-> contextMessages[i].content, system |-> ""]]
  IN  system \o context \o <<[role |-> "user", content |-> message, system |-> ""]>>

\* Mutant: the current message is never appended.
ConversationMessages_neverAppends(message, contextMessages, personality, responseLength) ==
  LET system  == <<[role |-> "system", content |-> <<>>,
                    system |-> SystemPrompt(personality, responseLength)]>>
      context == [i \in 1..Len(contextMessages) |->
                    [role |-> contextMessages[i].role,
                     content |-> contextMessages[i].content, system |-> ""]]
  IN  system \o context

\* The messages array of the completion request.  The system entry carries
\* its text in "system"; the other entries carry theirs in "content".
ConversationMessages(message, contextMessages, personality, responseLength) ==
  LET system  == <<[role |-> "system", content |-> <<>>,
                    system |-> SystemPrompt(personality, responseLength)]>>
      context == [i \in 1..Len(contextMessages) |->
                    [role |-> contextMessages[i].role,
                     content |-> contextMessages[i].content, system |-> ""]]
      current == IF contextMessages = <<>>
                    \/ contextMessages[Len(contextMessages)].content # message
                   THEN <<[role |-> "user", content |-> message, system |-> ""]>>
                   ELSE <<>>
  IN  system \o context \o current

\* Mutant: the catch block tests for 'API key' before 'rate limit'.
CompletionResponse_apiKeyFirst(outcome) ==
  CASE outcome.kind = "text" ->
         IF outcome.content # <<>> THEN outcome.content ELSE NoResponseText
    [] outcome.kind = "error" ->
         IF StringIncludes(outcome.content, ApiKeyNeedle) THEN ConfigurationApology
         ELSE IF StringIncludes(outcome.content, RateLimitNeedle) THEN RateLimitApology
         ELSE UnknownErrorApology
    [] OTHER -> UnknownErrorApology

\* What the Completion Service does with the one request: it returns a text
\* (kind "text", possibly empty or null: content <<>>), throws an Error with
\* a message (kind "error"), or throws a value that is not an Error
\* (kind "thrown").
CompletionResponse(outcome) ==
  CASE outcome.kind = "text" ->
         IF outcome.content # <<>> THEN outcome.content ELSE NoResponseText
    [] outcome.kind = "error" ->
         IF StringIncludes(outcome.content, RateLimitNeedle) THEN RateLimitApology
         ELSE IF StringIncludes(outcome.content, ApiKeyNeedle) THEN ConfigurationApology
         ELSE UnknownErrorApology
    [] OTHER -> UnknownErrorApology

generateAIResponse(message, contextMessages, personality, responseLength, outcome) ==
  [request  |-> [model       |-> "gpt-4o",
                 messages    |-> ConversationMessages(message, contextMessages,
                                                      personality, responseLength),
                 max_tokens  |-> MaxTokens(responseLength),
                 temperature |-> TemperatureTenths(personality)],
   response |-> CompletionResponse(outcome)]

(***************************************************************************)
(* server/discord/bot.ts: the policy of the MessageCreate handler.         *)
(***************************************************************************)

\* Mutant: the restriction forgets that an empty allow list restricts nothing.
ChannelRestricted_emptyListDenies(s, channelId) ==
  /\ s.channelMode = "specific"
  /\ ~Includes(s.allowedChannels, channelId)

\* bot.ts 57-61: the channel restriction.
ChannelRestricted(s, channelId) ==
  /\ s.channelMode = "specific"
  /\ Len(s.allowedChannels) > 0
  /\ ~Includes(s.allowedChannels, channelId)

\* Mutant: the mode is compared with a misspelt value.
SlashCommandRequired_misspelt(s) == s.slashCommandMode = "require"

\* bot.ts 64-66
SlashCommandRequired(s) == s.slashCommandMode = "required"

\* Mutant: any activated channel opens every channel of the guild.
NotActivated_anyChannel(s, channelId) ==
  /\ s.slashCommandMode = "activated"
  /\ s.activatedChannels = <<>>

\* bot.ts 69-74
NotActivated(s, channelId) ==
  /\ s.slashCommandMode = "activated"
  /\ ~Includes(s.activatedChannels, channelId)

\* Mutant: mode 'enabled' is treated as slash-commands-only.
MessageCreateAdmits_enabledDenies(s, channelId) ==
  IF ChannelRestricted(s, channelId) THEN FALSE
  ELSE IF SlashCommandRequired(s) \/ s.slashCommandMode = "enabled" THEN FALSE
  ELSE IF NotActivated(s, channelId) THEN FALSE
  ELSE TRUE

\* TRUE when the handler reaches "await handleMessage(message, '')".
MessageCreateAdmits(s, channelId) ==
  IF ChannelRestricted(s, channelId) THEN FALSE
  ELSE IF SlashCommandRequired(s) THEN FALSE
  ELSE IF NotActivated(s, channelId) THEN FALSE
  ELSE TRUE

(***************************************************************************)
(* The reply pipeline: handleMessage (handler.ts) and handleAICommand      *)
(* (slashCommands.ts).  A gateway send is [op, content, notice]: content   *)
(* is the text of a response send, notice names a fixed acknowledgment.    *)
(***************************************************************************)
DiscordChunkLength == 1900

Send(op, content) == [op |-> op, content |-> content, notice |-> ""]
Notice(op, notice) == [op |-> op, content |-> <<>>, notice |-> notice]

\* Mutant: the chunks after the first go out in one follow-up.
Deliver_joinsRest(response, firstOp, restOp) ==
  IF Len(response) <= 1900
    THEN <<Send(firstOp, response)>>
    ELSE LET parts == splitMessage(response, DiscordChunkLength)
         IN  <<Send(firstOp, parts[1])>>
               \o (IF Len(parts) = 1 THEN <<>>
                   ELSE <<Send(restOp, SubSeq(response, Len(parts[1]) + 1,
                                               Len(response)))>>)

\* "if (response.length <= 1900) first(response) else { chunks =
\* splitMessage(response); first(chunks[0]); rest(chunks[i]) for i >= 1 }"
Deliver(response, firstOp, restOp) ==
  IF Len(response) <= 1900
    THEN <<Send(firstOp, response)>>
    ELSE LET parts == splitMessage(response, DiscordChunkLength)
         IN  [i \in 1..Len(parts) |->
                Send(IF i = 1 THEN firstOp ELSE restOp, parts[i])]

\* The storage part shared by the two handlers (handler.ts 7-57 and 72-75,
\* slashCommands.ts 397-446 and 460-463): the stores after the turn, the
\* completion request and the response.
TurnStores(st, tbl, guild, channelId, userId, content, outcome) ==
  LET users1   == IF getUserByDiscordId(st.users, userId) = <<>>
                    THEN createUser(st.users, userId) ELSE st.users
      found    == getConversationByChannelAndUser(st.conversations, channelId, userId)
      convs1   == IF found = <<>>
                    THEN createConversation(st.conversations, userId, channelId, guild)
                    ELSE st.conversations
      conversation == IF found = <<>> THEN convs1[Len(convs1)] ELSE found[1]
      msgs1    == createMessage(st.messages, conversation.id, content, "user")
      recentMessages  == getMessagesByConversation(msgs1, conversation.id)
      contextMessages == SliceLast(recentMessages, ContextSize)
      s        == getSettingsByGuildId(tbl, GuildKey(guild))
      ai       == generateAIResponse(content, contextMessages,
                    IF s = <<>> THEN <<>> ELSE <<s[1].personality>>,
                    IF s = <<>> THEN <<>> ELSE <<s[1].responseLength>>,
                    outcome)
      msgs2    == createMessage(msgs1, conversation.id, ai.response, "assistant")
  IN  [users         |-> users1,
       conversations |-> convs1,
       messages      |-> msgs2,
       botStats      |-> updateBotStatsTurn(st.botStats, TurnTotalMessages(st.botStats),
                                            TurnApiCalls(st.botStats)),
       context       |-> contextMessages,
       calls         |-> <<ai.request>>,
       response      |-> ai.response,
       sent          |-> <<>>,
       ran           |-> TRUE,
       stored        |-> SubSeq(msgs2, Len(st.messages) + 1, Len(msgs2))]

\* The stores a handler that does not run the pipeline leaves behind.
NoTurn(st) ==
  [users |-> st.users, conversations |-> st.conversations, messages |-> st.messages,
   botStats |-> st.botStats, context |-> <<>>, calls |-> <<>>, response |-> <<>>,
   sent |-> <<>>, ran |-> FALSE, stored |-> <<>>]

\* handleMessage(message, prefix): the turn and its sends.
handleMessage(st, tbl, guild, channelId, userId, content, outcome) ==
  LET t == TurnStores(st, tbl, guild, channelId, userId, content, outcome)
  IN  [t EXCEPT !.sent = Deliver(t.response, "reply", "send")]

\* Mutant: the command applies the policy of plain messages to itself.
handleAICommand_gated(st, tbl, guild, channelId, userId, prompt, outcome) ==
  LET s == getSettingsByGuildId(tbl, GuildKey(guild))
      t == TurnStores(st, tbl, guild, channelId, userId, prompt, outcome)
  IN  IF s # <<>> /\ ~MessageCreateAdmits(s[1], channelId)
        THEN [NoTurn(st) EXCEPT !.sent = <<Notice("deferReply", "")>>]
        ELSE [t EXCEPT !.sent =
                <<Notice("deferReply", "")>> \o Deliver(t.response, "editReply", "followUp")]

\* handleAICommand(interaction): deferReply, then the turn and its sends.
\* It reads the settings only for the personality and the response length.
handleAICommand(st, tbl, guild, channelId, userId, prompt, outcome) ==
  LET t == TurnStores(st, tbl, guild, channelId, userId, prompt, outcome)
  IN  [t EXCEPT !.sent =
         <<Notice("deferReply", "")>> \o Deliver(t.response, "editReply", "followUp")]

Stores == [users |-> users, conversations |-> conversations,
           messages |-> messages, botStats |-> botStats]

(***************************************************************************)
(* server/discord/slashCommands.ts: the settings commands.  Each operator  *)
(* is the settings table after the command.                                *)
(***************************************************************************)
\* Mutant: the channel is pushed without the look at the list.
handleActivateCommand_alwaysPushes(tbl, guildId, channelId) ==
  LET s == getSettingsByGuildId(tbl, guildId)
  IN  IF s = <<>>
        THEN createOrUpdateSettings(tbl,
               InsertOf([SettingsDefaults(guildId) EXCEPT
                           !.slashCommandMode = "activated",
                           !.activatedChannels = <<channelId>>]))
        ELSE createOrUpdateSettings(tbl,
               InsertOf([s[1] EXCEPT
                           !.activatedChannels = Append(s[1].activatedChannels, channelId),
                           !.slashCommandMode = "activated"]))

\* Mutant: an existing row keeps its mode, only the channel is added.
handleActivateCommand_keepsMode(tbl, guildId, channelId) ==
  LET s == getSettingsByGuildId(tbl, guildId)
  IN  IF s = <<>>
        THEN createOrUpdateSettings(tbl,
               InsertOf([SettingsDefaults(guildId) EXCEPT
                           !.slashCommandMode = "activated",
                           !.activatedChannels = <<channelId>>]))
        ELSE createOrUpdateSettings(tbl,
               InsertOf([s[1] EXCEPT !.activatedChannels =
                           IF ~Includes(s[1].activatedChannels, channelId)
                             THEN Append(s[1].activatedChannels, channelId)
                             ELSE s[1].activatedChannels]))

\* The value handleActivateCommand passes to createOrUpdateSettings when
\* getSettingsByGuildId returned s.
ActivateInsert(s, guildId, channelId) ==
  IF s = <<>>
    THEN InsertOf([SettingsDefaults(guildId) EXCEPT
                     !.slashCommandMode = "activated",
                     !.activatedChannels = <<channelId>>])
    ELSE LET activatedChannels ==
               IF ~Includes(s[1].activatedChannels, channelId)
                 THEN Append(s[1].activatedChannels, channelId)
                 ELSE s[1].activatedChannels
         IN  InsertOf([s[1] EXCEPT !.activatedChannels = activatedChannels,
                                   !.slashCommandMode = "activated"])

handleActivateCommand(tbl, guildId, channelId) ==
  createOrUpdateSettings(tbl,
    ActivateInsert(getSettingsByGuildId(tbl, guildId), guildId, channelId))

\* Array.prototype.filter(id => id !== channelId)
RECURSIVE FilterOut(_, _)
FilterOut(list, x) ==
  IF list = <<>> THEN <<>>
  ELSE IF Head(list) # x THEN <<Head(list)>> \o FilterOut(Tail(list), x)
       ELSE FilterOut(Tail(list), x)

\* Mutant: the filtered list is computed but the stored row is not rewritten.
handleDeactivateCommand_notSaved(tbl, guildId, channelId) == tbl

\* Mutant: emptying the list also resets the mode to the default.
handleDeactivateCommand_resetsMode(tbl, guildId, channelId) ==
  LET s == getSettingsByGuildId(tbl, guildId)
  IN  IF s = <<>>
        THEN tbl
        ELSE LET rest == FilterOut(s[1].activatedChannels, channelId)
             IN  createOrUpdateSettings(tbl,
                   InsertOf([s[1] EXCEPT
                     !.activatedChannels = rest,
                     !.slashCommandMode =
                        IF rest = <<>> THEN "disabled" ELSE s[1].slashCommandMode]))

\* The value handleDeactivateCommand passes to createOrUpdateSettings when
\* getSettingsByGuildId returned the row.
DeactivateInsert(row, channelId) ==
  InsertOf([row EXCEPT !.activatedChannels = FilterOut(row.activatedChannels, channelId)])

handleDeactivateCommand(tbl, guildId, channelId) ==
  LET s == getSettingsByGuildId(tbl, guildId)
  IN  IF s = <<>>
        THEN tbl
        ELSE createOrUpdateSettings(tbl, DeactivateInsert(s[1], channelId))

\* Mutant: a guild without row gets the defaults row, the mode left out.
handleAIModeCommand_insertsDefaults(tbl, guildId, mode) ==
  LET s == getSettingsByGuildId(tbl, guildId)
  IN  IF s = <<>>
        THEN createOrUpdateSettings(tbl, InsertOf(SettingsDefaults(guildId)))
        ELSE createOrUpdateSettings(tbl,
               InsertOf([s[1] EXCEPT !.slashCommandMode = mode]))

\* Mutant: the row is rewritten from the defaults, only the mode is given.
handleAIModeCommand_resetsRow(tbl, guildId, mode) ==
  createOrUpdateSettings(tbl,
    InsertOf([SettingsDefaults(guildId) EXCEPT !.slashCommandMode = mode]))

\* The value handleAIModeCommand passes to createOrUpdateSettings when
\* getSettingsByGuildId returned s.
AIModeInsert(s, guildId, mode) ==
  IF s = <<>>
    THEN InsertOf([SettingsDefaults(guildId) EXCEPT !.slashCommandMode = mode])
    ELSE InsertOf([s[1] EXCEPT !.slashCommandMode = mode])

handleAIModeCommand(tbl, guildId, mode) ==
  createOrUpdateSettings(tbl,
    AIModeInsert(getSettingsByGuildId(tbl, guildId), guildId, mode))

\* switch (mode) of handleAIModeCommand
ModeDescription(mode) ==
  CASE mode = "disabled" ->
         "The bot will respond to all messages normally (no slash command required)"
    [] mode = "enabled" ->
         "The bot will respond to both regular messages and slash commands"
    [] mode = "required" ->
         "The bot will ONLY respond when summoned via /ai command"
    [] mode = "activated" ->
         "The bot will only respond in channels activated with /activate command"

(***************************************************************************)
(* server/routes.ts: POST /api/settings.  A request body names the guild   *)
(* and gives one field; the fields it leaves out are absent.               *)
(***************************************************************************)
EmptyBody(guildId) ==
  [guildId |-> guildId, prefix |-> <<>>, responseLength |-> <<>>,
   personality |-> <<>>, codeFormat |-> <<>>, allowedChannels |-> <<>>,
   channelMode |-> <<>>, slashCommandMode |-> <<>>, activatedChannels |-> <<>>]

GuildKeys == {GuildKey(g) : g \in EventGuilds}

SettingsBodies ==
  UNION {
    {[EmptyBody(k) EXCEPT !.channelMode = <<v>>] : v \in {"all", "specific"}}
    \cup {[EmptyBody(k) EXCEPT !.allowedChannels = <<v>>] : v \in {<<>>, <<"c1">>}}
    \cup {[EmptyBody(k) EXCEPT !.slashCommandMode = <<v>>] : v \in Modes}
    \cup {[EmptyBody(k) EXCEPT !.activatedChannels = <<v>>] : v \in {<<>>, <<"c1">>}}
    : k \in GuildKeys}

(***************************************************************************)
(* The voice commands of slashCommands.ts.  voiceConnections is the Map    *)
(* of the module; voiceLibrary is what the voice library keeps: the        *)
(* connections it tracks, one per guild, and how many it has created.      *)
(***************************************************************************)
\* Map.prototype.set, get and delete on a set of <<key, value>> entries.
MapDelete(map, key) == {e \in map : e[1] # key}
MapSet(map, key, value) == MapDelete(map, key) \cup {<<key, value>>}
MapHas(map, key) == \E e \in map : e[1] = key

\* getVoiceConnection(guildId): the tracked connection of the guild, if any.
getVoiceConnection(lib, guildId) ==
  LET of == {c \in lib.tracked : c.guildId = guildId}
  IN  IF of = {} THEN <<>> ELSE <<CHOOSE c \in of : TRUE>>

\* joinVoiceChannel({guildId, ...}): the library returns the connection it
\* tracks for the guild, or creates and tracks a new one.
joinVoiceChannel(lib, guildId) ==
  IF getVoiceConnection(lib, guildId) # <<>> THEN lib
  ELSE [tracked |-> lib.tracked \cup
                      {[guildId |-> guildId, id |-> lib.created + 1,
                        status |-> "ready"]},
        created |-> lib.created + 1]

\* connection.destroy(): the library no longer tracks the connection.
destroy(lib, guildId) ==
  [lib EXCEPT !.tracked = {c \in @ : c.guildId # guildId}]

\* What a voice command leaves behind: the Map, the library, its reply and
\* whether getVoiceConnection found a connection.
VoiceOutcome(map, lib, notice, existing) ==
  [map |-> map, lib |-> lib, notice |-> notice, existing |-> existing]

\* The try block of handleJoinVoiceCommand up to its reply.
handleJoinVoiceCommand(map, lib, guild, inVoiceChannel) ==
  IF guild = NoGuild
    THEN VoiceOutcome(map, lib, "This command can only be used in a server.", FALSE)
  ELSE IF ~inVoiceChannel
    THEN VoiceOutcome(map, lib, "You need to be in a voice channel for me to join!", FALSE)
  ELSE IF getVoiceConnection(lib, guild) # <<>>
    THEN VoiceOutcome(map, lib,
           "I'm already connected to a voice channel in this server.", TRUE)
  ELSE LET lib2 == joinVoiceChannel(lib, guild)
       IN  VoiceOutcome(MapSet(map, guild, getVoiceConnection(lib2, guild)[1].id),
                        lib2, "Joined voice channel", FALSE)

\* Mutant: the connection is destroyed but its entry stays in the Map.
handleLeaveVoiceCommand_keepsEntry(map, lib, guild) ==
  IF guild = NoGuild
    THEN VoiceOutcome(map, lib, "This command can only be used in a server.", FALSE)
  ELSE IF getVoiceConnection(lib, guild) = <<>>
    THEN VoiceOutcome(map, lib,
           "I'm not connected to any voice channel in this server.", FALSE)
  ELSE VoiceOutcome(map, destroy(lib, guild),
                    "Left the voice channel successfully.", TRUE)

\* The try block of handleLeaveVoiceCommand up to its reply.
handleLeaveVoiceCommand(map, lib, guild) ==
  IF guild = NoGuild
    THEN VoiceOutcome(map, lib, "This command can only be used in a server.", FALSE)
  ELSE IF getVoiceConnection(lib, guild) = <<>>
    THEN VoiceOutcome(map, lib,
           "I'm not connected to any voice channel in this server.", FALSE)
  ELSE VoiceOutcome(MapDelete(map, guild), destroy(lib, guild),
                    "Left the voice channel successfully.", TRUE)

\* connection.on(VoiceConnectionStatus.Disconnected, ...): the listener
\* deletes the entry of its guild.
onDisconnected(map, guildId) == MapDelete(map, guildId)

(***************************************************************************)
(* Calls that throw.  A handler awaits its storage calls and its gateway   *)
(* sends one after another; a call that throws ends the try block it is in *)
(* and starts the catch block.  A plan names the call of the event that    *)
(* throws, counted over the awaited calls the handler makes, and how many  *)
(* of the sends of the catch blocks throw after it.                        *)
(***************************************************************************)
AICommandErrorReply == CommandErrorReply

SlashCommandErrorNotice ==
  "Sorry, I encountered an error while processing your command."

UnknownCommandNotice ==
  "Unknown command. Available commands: /ai, /activate, /deactivate, /joinvoice, /leavevoice, /aimode"

SettingsErrorNotice(kind) ==
  CASE kind = "activate" ->
         "Sorry, I encountered an error while activating this channel."
    [] kind = "deactivate" ->
         "Sorry, I encountered an error while deactivating this channel."
    [] kind = "aimode" ->
         "Sorry, I encountered an error while updating the AI mode."

\* One call of a handler: its name, what it sends, whether it returned.
Made(op, content, notice, ok) ==
  [op |-> op, content |-> content, notice |-> notice, ok |-> ok]

Awaited(op) == Made(op, <<>>, "", TRUE)
GatewayCall(send) == Made(send.op, send.content, send.notice, TRUE)
LogCall == Made("console.error", <<>>, "", TRUE)

\* Mutant: generateAIResponse lets the exception of its completion call out.
CanThrow_completion(c) == c.op # "console.error"

\* generateAIResponse catches whatever its completion call throws, and
\* console.error returns: every other call can throw.
CanThrow(c) == c.op \notin {"generateAIResponse", "console.error"}

\* The index in calls of the n-th call that can throw, 0 when there is none.
ThrowIndex(calls, n) ==
  LET At(i) == /\ CanThrow(calls[i])
               /\ Cardinality({j \in 1..i : CanThrow(calls[j])}) = n
  IN  IF n > 0 /\ \E i \in 1..Len(calls) : At(i)
        THEN CHOOSE i \in 1..Len(calls) : At(i)
        ELSE 0

\* Mutant: the calls after the one that throws are made all the same.
Attempt_goesOn(calls, failAt) ==
  LET at == ThrowIndex(calls, failAt)
  IN  [made   |-> [i \in 1..Len(calls) |->
                     IF i = at THEN [calls[i] EXCEPT !.ok = FALSE] ELSE calls[i]],
       thrown |-> at > 0,
       at     |-> at]

\* The calls of a try block in the order they are awaited: the calls before
\* the one that throws return, and none is made after it.
Attempt(calls, failAt) ==
  LET at == ThrowIndex(calls, failAt)
  IN  IF at = 0
        THEN [made |-> calls, thrown |-> FALSE, at |-> 0]
        ELSE [made   |-> Append(SubSeq(calls, 1, at - 1),
                                [calls[at] EXCEPT !.ok = FALSE]),
              thrown |-> TRUE,
              at     |-> at]

\* The number of calls of the name that returned.
Returned(made, op) ==
  Cardinality({i \in 1..Len(made) : made[i].op = op /\ made[i].ok})

\* The number of calls that can throw.
Throwable(calls) == Cardinality({i \in 1..Len(calls) : CanThrow(calls[i])})

\* interaction.deferred and interaction.replied after the calls made.
Deferred(made) == Returned(made, "deferReply") > 0
Replied(made) ==
  \E i \in 1..Len(made) :
    made[i].ok /\ made[i].op \in {"reply", "editReply", "followUp"}

\* The awaited calls of the pipeline of the two handlers when none throws
\* (handler.ts 8-75, slashCommands.ts 397-463).
TurnCalls(st, t, channelId, userId, firstOp, restOp) ==
  LET sends == Deliver(t.response, firstOp, restOp)
  IN  <<Awaited("getUserByDiscordId")>>
        \o (IF getUserByDiscordId(st.users, userId) = <<>>
              THEN <<Awaited("createUser")>> ELSE <<>>)
        \o <<Awaited("getConversationByChannelAndUser")>>
        \o (IF getConversationByChannelAndUser(st.conversations, channelId, userId) = <<>>
              THEN <<Awaited("createConversation")>> ELSE <<>>)
        \o <<Awaited("createMessage"),
             Awaited("getMessagesByConversation"),
             Awaited("getSettingsByGuildId"),
             Awaited("generateAIResponse"),
             Awaited("createMessage")>>
        \o [i \in 1..Len(sends) |-> GatewayCall(sends[i])]
        \o <<Awaited("getBotStats"), Awaited("getBotStats"),
             Awaited("updateBotStats")>>

\* What a handler leaves behind: the stores, the completion requests made,
\* the calls made, whether an exception leaves it, the number of sends its
\* catch blocks have made, and the number of its calls that could throw
\* had none thrown.
Outcome(tbl, st, calls, response, made, thrown, points) ==
  [settings |-> tbl, users |-> st.users, conversations |-> st.conversations,
   messages |-> st.messages, botStats |-> st.botStats,
   calls |-> calls, response |-> response, made |-> made,
   thrown |-> thrown, recovered |-> 0, points |-> points]

\* The pipeline t cut after the calls of body, a result of Attempt.
TurnAfter(tbl, st, t, body, points) ==
  Outcome(tbl,
    [users         |-> IF Returned(body.made, "createUser") > 0
                         THEN t.users ELSE st.users,
     conversations |-> IF Returned(body.made, "createConversation") > 0
                         THEN t.conversations ELSE st.conversations,
     messages      |-> SubSeq(t.messages, 1,
                              Len(st.messages) + Returned(body.made, "createMessage")),
     botStats      |-> IF Returned(body.made, "updateBotStats") > 0
                         THEN t.botStats ELSE st.botStats],
    IF Returned(body.made, "generateAIResponse") > 0 THEN t.calls ELSE <<>>,
    IF Returned(body.made, "generateAIResponse") > 0 THEN t.response ELSE <<>>,
    body.made, body.thrown, points)

\* The try block of a handler whose calls are before \o TurnCalls.
TurnTry(tbl, st, t, all, failAt) ==
  TurnAfter(tbl, st, t, Attempt(all, failAt), Throwable(all))

\* The k-th send of the catch blocks returns unless the plan fails it.
RecoverySend(op, content, notice, k, plan) ==
  Made(op, content, notice, plan.failSends < k)

\* A catch block that logs the error and awaits one send: if the send
\* throws, the exception leaves the handler.
LogAndSend(r, send) ==
  [r EXCEPT !.made = @ \o <<LogCall, send>>,
            !.thrown = ~send.ok,
            !.recovered = 1]

\* Mutant: the catch block of handleMessage only logs the error.
handleMessageCatch_logsOnly(r, plan) ==
  IF ~r.thrown THEN r
  ELSE [r EXCEPT !.made = Append(@, LogCall), !.thrown = FALSE]

\* The catch block of handleMessage (handler.ts 77-80): the error is logged
\* and the apology is sent as a reply.
handleMessageCatch(r, plan) ==
  IF ~r.thrown THEN r
  ELSE LogAndSend(r, RecoverySend("reply", HandlerErrorReply, "", 1, plan))

\* Mutant: the catch block of handleMessage awaits nothing but the log.
HandlerCatchCalls_logsOnly == <<LogCall>>

\* The calls of the catch block of handleMessage in the order they are
\* made, the reply returning (handler.ts 77-80).
HandlerCatchCalls ==
  <<LogCall, Made("reply", HandlerErrorReply, "", TRUE)>>

\* handleMessage: its try block and its catch block.
tryHandleMessage(st, tbl, t, channelId, userId, plan) ==
  handleMessageCatch(
    TurnTry(tbl, st, t, TurnCalls(st, t, channelId, userId, "reply", "send"),
            plan.failAt),
    plan)

\* Mutant: the catch block of the MessageCreate listener throws the error on.
MessageCreateCatch_rethrows(r) == r

\* "catch (error) { console.error('Error handling message:', error); }" of
\* the MessageCreate listener (bot.ts 77-79).
MessageCreateCatch(r) ==
  IF r.thrown
    THEN [r EXCEPT !.made = Append(@, LogCall), !.thrown = FALSE]
    ELSE r

\* The storage calls of the listener before the policy (bot.ts 39-54).
SettingsLoads(tbl, guildId) ==
  <<Awaited("getSettingsByGuildId")>>
    \o (IF getSettingsByGuildId(tbl, guildId) = <<>>
          THEN <<Awaited("createOrUpdateSettings")>> ELSE <<>>)

\* The settings table after these calls.
SettingsLoaded(tbl, guildId) ==
  IF getSettingsByGuildId(tbl, guildId) = <<>>
    THEN createOrUpdateSettings(tbl, InsertOf(SettingsDefaults(guildId)))
    ELSE tbl

\* The plan for the calls after the first n.
Shift(plan, n) ==
  [plan EXCEPT !.failAt = IF @ > n THEN @ - n ELSE 0]

\* The calls made before a handler ran, put before its own.
After(made, r) ==
  [r EXCEPT !.made = made \o @, !.points = Len(made) + @]

\* The try block of the MessageCreate listener for a message that no bot
\* wrote (bot.ts 38-76): adm is the attempt of the storage calls, tbl1 the
\* table after them; the policy is applied and handleMessage runs if it
\* admits the message.
MessageCreateTry(st, tbl, tbl1, adm, guild, channelId, userId, content, outcome, plan) ==
  IF adm.thrown
    THEN Outcome(tbl, st, <<>>, <<>>, adm.made, TRUE, Len(adm.made))
  ELSE IF MessageCreateAdmits(getSettingsByGuildId(tbl1, GuildKey(guild))[1], channelId)
    THEN After(adm.made,
               tryHandleMessage(st, tbl1,
                 TurnStores(st, tbl1, guild, channelId, userId, content, outcome),
                 channelId, userId, Shift(plan, Len(adm.made))))
    ELSE Outcome(tbl1, st, <<>>, <<>>, adm.made, FALSE, Len(adm.made))

tryMessageCreate(st, tbl, guild, channelId, userId, content, outcome, plan) ==
  MessageCreateCatch(
    MessageCreateTry(st, tbl, SettingsLoaded(tbl, GuildKey(guild)),
                     Attempt(SettingsLoads(tbl, GuildKey(guild)), plan.failAt),
                     guild, channelId, userId, content, outcome, plan))

\* The catch block of handleAICommand (slashCommands.ts 465-468): the error
\* is logged and the deferred reply is edited.  deferReply is awaited before
\* the try block, so its exception leaves the handler at once.
handleAICommandCatch(r, plan) ==
  IF ~r.thrown \/ ~Deferred(r.made) THEN r
  ELSE LogAndSend(r, RecoverySend("editReply", AICommandErrorReply, "", 1, plan))

\* handleAICommand: deferReply, its try block and its catch block.
tryHandleAICommand(st, tbl, t, channelId, userId, plan) ==
  handleAICommandCatch(
    TurnTry(tbl, st, t,
            <<GatewayCall(Notice("deferReply", ""))>>
              \o TurnCalls(st, t, channelId, userId, "editReply", "followUp"),
            plan.failAt),
    plan)

\* The acknowledgment of a settings command that found the row s.
SettingsAck(kind, s, mode) ==
  CASE kind = "activate" -> "AI responses activated in this channel!"
    [] kind = "deactivate" ->
         IF s = <<>> THEN "No settings found for this server."
         ELSE "AI responses deactivated in this channel!"
    [] kind = "aimode" -> ModeDescription(mode)

\* The awaited calls of handleActivateCommand, handleDeactivateCommand and
\* handleAIModeCommand when none throws: the row is loaded, written unless
\* /deactivate found none, and the acknowledgment is sent.
SettingsCalls(kind, s, mode) ==
  <<Awaited("getSettingsByGuildId")>>
    \o (IF kind = "deactivate" /\ s = <<>>
          THEN <<>> ELSE <<Awaited("createOrUpdateSettings")>>)
    \o <<GatewayCall(Notice("reply", SettingsAck(kind, s, mode)))>>

\* The settings table the command writes.
SettingsWritten(kind, tbl, guildId, channelId, mode) ==
  CASE kind = "activate" -> handleActivateCommand(tbl, guildId, channelId)
    [] kind = "deactivate" -> handleDeactivateCommand(tbl, guildId, channelId)
    [] kind = "aimode" -> handleAIModeCommand(tbl, guildId, mode)

\* The try block of a settings command, cut after the calls of body.
SettingsTry(tbl, tbl2, st, body, points) ==
  Outcome(IF Returned(body.made, "createOrUpdateSettings") > 0 THEN tbl2 ELSE tbl,
          st, <<>>, <<>>, body.made, body.thrown, points)

\* The catch blocks of the settings commands (slashCommands.ts 505-513,
\* 540-548, 595-603): the error is logged and the apology is sent with
\* interaction.reply.
SettingsCatch(kind, r, plan) ==
  IF ~r.thrown THEN r
  ELSE LogAndSend(r, RecoverySend("reply", <<>>, SettingsErrorNotice(kind), 1, plan))

trySettingsCommand(kind, st, tbl, guildId, channelId, mode, plan) ==
  SettingsCatch(kind,
    SettingsTry(tbl, SettingsWritten(kind, tbl, guildId, channelId, mode), st,
                Attempt(SettingsCalls(kind, getSettingsByGuildId(tbl, guildId), mode),
                        plan.failAt),
                Len(SettingsCalls(kind, getSettingsByGuildId(tbl, guildId), mode))),
    plan)

\* The default branch of the switch of handleSlashCommand: one reply.
tryUnknownCommand(st, tbl, plan) ==
  SettingsTry(tbl, tbl, st,
              Attempt(<<GatewayCall(Notice("reply", UnknownCommandNotice))>>,
                      plan.failAt),
              1)

\* The apologies of the catch blocks of the voice commands.
VoiceErrorNotice(kind) ==
  IF kind = "joinvoice"
    THEN "Sorry, I encountered an error while trying to join the voice channel."
    ELSE "Sorry, I encountered an error while trying to leave the voice channel."

\* The library call a voice command makes before its reply.
VoiceLibraryCall(kind) == IF kind = "joinvoice" THEN "joinVoiceChannel" ELSE "destroy"

\* The calls of a voice command when none throws: v is what the command
\* leaves behind then; the library is called on the paths that change it.
VoiceCalls(kind, v, lib) ==
  (IF v.lib # lib THEN <<Awaited(VoiceLibraryCall(kind))>> ELSE <<>>)
    \o <<GatewayCall(Notice("reply", v.notice))>>

\* The command without failure.
VoiceCommand(kind, map, lib, guild, inVoiceChannel) ==
  IF kind = "joinvoice"
    THEN handleJoinVoiceCommand(map, lib, guild, inVoiceChannel)
    ELSE handleLeaveVoiceCommand(map, lib, guild)

\* The catch blocks of the voice commands (slashCommands.ts 659-665,
\* 695-701): the error is logged and the apology is sent with
\* interaction.reply.
VoiceCatch(kind, r, plan) ==
  IF ~r.thrown THEN r
  ELSE LogAndSend(r, RecoverySend("reply", <<>>, VoiceErrorNotice(kind), 1, plan))

tryVoiceCommand(kind, st, tbl, v, lib, plan) ==
  VoiceCatch(kind,
    SettingsTry(tbl, tbl, st, Attempt(VoiceCalls(kind, v, lib), plan.failAt),
                Len(VoiceCalls(kind, v, lib))),
    plan)

\* The Map and the library after the calls made: the library call that
\* threw changed neither.
VoiceAfter(kind, made, v, map, lib) ==
  IF Returned(made, VoiceLibraryCall(kind)) > 0
    THEN v ELSE VoiceOutcome(map, lib, v.notice, v.existing)

\* Mutant: the catch block sends its apology outside a try block of its own.
handleSlashCommandCatch_bareSend(r, plan) ==
  IF ~r.thrown THEN r
  ELSE LET k    == r.recovered + 1
           send == IF ~Replied(r.made) /\ ~Deferred(r.made)
                     THEN <<RecoverySend("reply", <<>>, SlashCommandErrorNotice, k, plan)>>
                   ELSE IF Deferred(r.made)
                     THEN <<RecoverySend("editReply", <<>>, SlashCommandErrorNotice, k, plan)>>
                   ELSE <<>>
       IN  [r EXCEPT !.made = r.made \o <<LogCall>> \o send,
                     !.thrown = send # <<>> /\ ~send[1].ok,
                     !.recovered = r.recovered + Len(send)]

\* Mutant: the catch block replies without looking at the interaction.
handleSlashCommandCatch_alwaysReplies(r, plan) ==
  IF ~r.thrown THEN r
  ELSE LET k    == r.recovered + 1
           send == RecoverySend("reply", <<>>, SlashCommandErrorNotice, k, plan)
       IN  [r EXCEPT !.made = r.made \o <<LogCall, send>>
                                \o (IF send.ok THEN <<>> ELSE <<LogCall>>),
                     !.thrown = FALSE,
                     !.recovered = r.recovered + 1]

\* The catch block of handleSlashCommand (slashCommands.ts 374-388): the
\* error is logged; an interaction neither replied nor deferred gets the
\* apology as its reply, a deferred one gets it as an edit of that reply;
\* an exception of this send is logged.
handleSlashCommandCatch(r, plan) ==
  IF ~r.thrown THEN r
  ELSE LET k    == r.recovered + 1
           send == IF ~Replied(r.made) /\ ~Deferred(r.made)
                     THEN <<RecoverySend("reply", <<>>, SlashCommandErrorNotice, k, plan)>>
                   ELSE IF Deferred(r.made)
                     THEN <<RecoverySend("editReply", <<>>, SlashCommandErrorNotice, k, plan)>>
                   ELSE <<>>
       IN  [r EXCEPT !.made = r.made \o <<LogCall>> \o send
                                \o (IF send # <<>> /\ ~send[1].ok
                                      THEN <<LogCall>> ELSE <<>>),
                     !.thrown = FALSE,
                     !.recovered = r.recovered + Len(send)]

\* No event with failing calls has been handled.
NoPlan == [failAt |-> 0, failSends |-> 0]
NoRun ==
  [kind |-> "none", guildId |-> "", channelId |-> "",
   calls |-> <<>>, response |-> <<>>, stored |-> <<>>, made |-> <<>>,
   escaped |-> FALSE]

\* No voice connection has been made.
NoVoice == [tracked |-> {}, created |-> 0]

(***************************************************************************)
(* Events.  Every handler runs from its first line to its last as one      *)
(* step; its inputs are the event and the outcome of the one completion    *)
(* call it may make.                                                       *)
(***************************************************************************)
\* A turn stores two messages: the admitted turns are bounded by MaxTurns.
MaxMessages == 2 * MaxTurns

Prompts == {<<"h", "i">>}

CompletionOutcomes ==
  {[kind |-> "text", content |-> <<"o", "k">>],
   [kind |-> "error", content |-> RateLimitNeedle]}

Event(kind, guildId, channelId, userId) ==
  [kind |-> kind, guildId |-> guildId, channelId |-> channelId, userId |-> userId,
   bot |-> FALSE, arg |-> "", seen |-> <<>>, admitted |-> FALSE,
   context |-> <<>>, calls |-> <<>>, sent |-> <<>>, stored |-> <<>>]

\* The history after a step that rewrote the settings row of guildId: the
\* marks in drop are superseded when the row changed.
Supersede(tbl, tbl2, guildId, drop) ==
  IF getSettingsByGuildId(tbl, guildId) = getSettingsByGuildId(tbl2, guildId)
    THEN lastToggle
    ELSE [p \in DOMAIN lastToggle |->
            IF p[1] = guildId /\ lastToggle[p] \in drop THEN "none" ELSE lastToggle[p]]

\* A handler that is not running: the operation it ran last, whether that
\* one threw, and the number of operations it has run.
Idle(ops, op, failed) ==
  [pc |-> "idle", op |-> op, ins |-> EmptyBody(""), existing |-> FALSE,
   ops |-> ops, failed |-> failed]

RaceProcs == {"p1", "p2"}
NoProcs == [p \in RaceProcs |-> Idle(0, "none", FALSE)]

\* No call of generateAIResponse is under study.
NoCall ==
  [message |-> <<>>, contextMessages |-> <<>>, personality |-> <<>>,
   responseLength |-> <<>>, outcome |-> [kind |-> "text", content |-> <<>>]]

Init ==
  /\ settings = {}
  /\ users = {}
  /\ conversations = <<>>
  /\ messages = <<>>
  /\ botStats = <<>>
  /\ last = Event("none", "", "", "")
  /\ lastToggle = [p \in GuildKeys \X Channels |-> "none"]
  /\ text = <<>>
  /\ maxLength = 1
  /\ chunks = <<>>
  /\ rechunked = <<>>
  /\ step = "input"
  /\ call = NoCall
  /\ result = <<>>
  /\ procs = NoProcs
  /\ run = NoRun
  /\ voiceConnections = {}
  /\ voiceLibrary = NoVoice

\* Mutant: the listener does not look at the author.
AuthorIsBot_ignored(bot) == FALSE

\* "if (message.author.bot) return;" (bot.ts 36)
AuthorIsBot(bot) == bot

\* client.on(Events.MessageCreate, ...) of bot.ts, in a model that holds at
\* most limit messages.
MessageCreateWithin(limit, guild, channelId, userId, bot, content, outcome) ==
  LET guildId == GuildKey(guild)
      ev      == Event("message", guildId, channelId, userId)
  IN  IF AuthorIsBot(bot)
        THEN /\ last' = [ev EXCEPT !.bot = bot]
             /\ UNCHANGED <<settings, users, conversations, messages, botStats,
                            lastToggle, chunkVars, callVars, raceVars, runVars, voiceVars>>
        ELSE LET tbl1 == IF getSettingsByGuildId(settings, guildId) = <<>>
                           THEN createOrUpdateSettings(settings,
                                  InsertOf(SettingsDefaults(guildId)))
                           ELSE settings
                 s    == getSettingsByGuildId(tbl1, guildId)[1]
                 r    == IF MessageCreateAdmits(s, channelId)
                           THEN handleMessage(Stores, tbl1, guild, channelId,
                                              userId, content, outcome)
                           ELSE NoTurn(Stores)
             IN  /\ Len(r.messages) <= limit
                 /\ settings' = tbl1
                 /\ users' = r.users
                 /\ conversations' = r.conversations
                 /\ messages' = r.messages
                 /\ botStats' = r.botStats
                 /\ last' = [ev EXCEPT !.bot = bot,
                                       !.seen = <<s>>, !.admitted = r.ran,
                                       !.context = r.context,
                                       !.calls = r.calls, !.sent = r.sent,
                                       !.stored = r.stored]
                 /\ UNCHANGED <<lastToggle, chunkVars, callVars, raceVars, runVars, voiceVars>>

MessageCreate(guild, channelId, userId, bot, content, outcome) ==
  MessageCreateWithin(MaxMessages, guild, channelId, userId, bot, content, outcome)

\* handleSlashCommand with commandName 'ai', in a model that holds at most
\* limit messages.
AICommandWithin(limit, guild, channelId, userId, prompt, outcome) ==
  LET guildId == GuildKey(guild)
      r       == handleAICommand(Stores, settings, guild, channelId, userId,
                                 prompt, outcome)
  IN  /\ Len(r.messages) <= limit
      /\ users' = r.users
      /\ conversations' = r.conversations
      /\ messages' = r.messages
      /\ botStats' = r.botStats
      /\ last' = [Event("ai", guildId, channelId, userId) EXCEPT
                    !.seen = getSettingsByGuildId(settings, guildId),
                    !.admitted = r.ran, !.context = r.context,
                    !.calls = r.calls, !.sent = r.sent, !.stored = r.stored]
      /\ UNCHANGED <<settings, lastToggle, chunkVars, callVars, raceVars, runVars, voiceVars>>

AICommand(guild, channelId, userId, prompt, outcome) ==
  AICommandWithin(MaxMessages, guild, channelId, userId, prompt, outcome)

\* handleSlashCommand with commandName 'activate'
ActivateCommand(guild, channelId) ==
  LET guildId == GuildKey(guild)
  IN  /\ settings' = handleActivateCommand(settings, guildId, channelId)
      /\ last' = [Event("activate", guildId, channelId, "") EXCEPT
                    !.seen = getSettingsByGuildId(settings, guildId),
                    !.sent = <<Notice("reply", "AI responses activated in this channel!")>>]
      /\ lastToggle' = [lastToggle EXCEPT ![<<guildId, channelId>>] = "activate"]
      /\ UNCHANGED <<users, conversations, messages, botStats, chunkVars, callVars, raceVars, runVars, voiceVars>>

\* handleSlashCommand with commandName 'deactivate'
DeactivateCommand(guild, channelId) ==
  LET guildId == GuildKey(guild)
      s       == getSettingsByGuildId(settings, guildId)
  IN  /\ settings' = handleDeactivateCommand(settings, guildId, channelId)
      /\ last' = [Event("deactivate", guildId, channelId, "") EXCEPT
                    !.seen = s,
                    !.sent = IF s = <<>>
                               THEN <<Notice("reply", "No settings found for this server.")>>
                               ELSE <<Notice("reply", "AI responses deactivated in this channel!")>>]
      /\ lastToggle' = IF s = <<>> THEN lastToggle
                       ELSE [lastToggle EXCEPT ![<<guildId, channelId>>] = "deactivate"]
      /\ UNCHANGED <<users, conversations, messages, botStats, chunkVars, callVars, raceVars, runVars, voiceVars>>

\* handleSlashCommand with commandName 'aimode'
AIModeCommand(guild, mode) ==
  LET guildId == GuildKey(guild)
      tbl2    == handleAIModeCommand(settings, guildId, mode)
  IN  /\ settings' = tbl2
      /\ last' = [Event("aimode", guildId, "", "") EXCEPT
                    !.arg = mode,
                    !.seen = getSettingsByGuildId(settings, guildId),
                    !.sent = <<Notice("reply", ModeDescription(mode))>>]
      /\ lastToggle' = Supersede(settings, tbl2, guildId, {"activate"})
      /\ UNCHANGED <<users, conversations, messages, botStats, chunkVars, callVars, raceVars, runVars, voiceVars>>

\* app.post("/api/settings", ...) of routes.ts
PostSettings(body) ==
  LET tbl2 == createOrUpdateSettings(settings, body)
  IN  /\ settings' = tbl2
      /\ last' = [Event("settings", body.guildId, "", "") EXCEPT
                    !.seen = getSettingsByGuildId(settings, body.guildId)]
      /\ lastToggle' = Supersede(settings, tbl2, body.guildId, {"activate", "deactivate"})
      /\ UNCHANGED <<users, conversations, messages, botStats, chunkVars, callVars, raceVars, runVars, voiceVars>>

Next ==
  \/ \E g \in EventGuilds, c \in Channels, u \in UserIds, b \in BOOLEAN,
        p \in Prompts, o \in CompletionOutcomes :
       MessageCreate(g, c, u, b, p, o)
  \/ \E g \in EventGuilds, c \in Channels, u \in UserIds,
        p \in Prompts, o \in CompletionOutcomes :
       AICommand(g, c, u, p, o)
  \/ \E g \in EventGuilds, c \in Channels :
       ActivateCommand(g, c)
  \/ \E g \in EventGuilds, c \in Channels :
       DeactivateCommand(g, c)
  \/ \E g \in EventGuilds, m \in Modes : AIModeCommand(g, m)
  \/ \E body \in SettingsBodies : PostSettings(body)

Spec == Init /\ [][Next]_vars

(***************************************************************************)
(* The settings operations alone, handled one after another: the three     *)
(* settings commands and the settings route, whose bodies also set the     *)
(* personality and the response length.                                    *)
(***************************************************************************)
DashboardBodies ==
  SettingsBodies
    \cup {[EmptyBody(k) EXCEPT !.personality = <<"creative">>] : k \in GuildKeys}
    \cup {[EmptyBody(k) EXCEPT !.responseLength = <<"concise">>] : k \in GuildKeys}

NextSettings ==
  \/ \E g \in EventGuilds, c \in Channels : ActivateCommand(g, c)
  \/ \E g \in EventGuilds, c \in Channels : DeactivateCommand(g, c)
  \/ \E g \in EventGuilds, m \in Modes : AIModeCommand(g, m)
  \/ \E body \in DashboardBodies : PostSettings(body)

SpecSettings == Init /\ [][NextSettings]_vars

(***************************************************************************)
(* Interleaved settings operations.  Every handler is an async function:   *)
(* between two awaits it runs alone, at an await another handler may run.  *)
(* A step is the code up to and including the next storage call.           *)
(***************************************************************************)
RaceGuilds == {"g1", NoGuild}
RaceGuildKeys == {GuildKey(g) : g \in RaceGuilds}
RaceChannels == {"c1"}
RaceModes == {"required"}
RaceBodies == {[EmptyBody(k) EXCEPT !.channelMode = <<"specific">>] : k \in RaceGuildKeys}

\* The handler is inside createOrUpdateSettings(ins), before its select.
Reading(pr, op, ins) ==
  [pr EXCEPT !.pc = "read", !.op = op, !.ins = ins, !.failed = FALSE]

RaceBegin(p, op, next) ==
  /\ procs[p].pc = "idle"
  /\ procs[p].ops < MaxRaceOps
  /\ procs' = [procs EXCEPT ![p] = next]
  /\ UNCHANGED <<storeVars, chunkVars, callVars, runVars, voiceVars>>

\* MessageCreate up to "await storage.getSettingsByGuildId": a message of a
\* guild with a row goes on without writing the settings.
RaceMessage(p, guild) ==
  LET s == getSettingsByGuildId(settings, GuildKey(guild))
  IN  RaceBegin(p, "message",
        IF s = <<>>
          THEN Reading(procs[p], "message", InsertOf(SettingsDefaults(GuildKey(guild))))
          ELSE Idle(procs[p].ops + 1, "message", FALSE))

RaceActivate(p, guild, channelId) ==
  LET s == getSettingsByGuildId(settings, GuildKey(guild))
  IN  RaceBegin(p, "activate",
        Reading(procs[p], "activate", ActivateInsert(s, GuildKey(guild), channelId)))

RaceDeactivate(p, guild, channelId) ==
  LET s == getSettingsByGuildId(settings, GuildKey(guild))
  IN  RaceBegin(p, "deactivate",
        IF s = <<>>
          THEN Idle(procs[p].ops + 1, "deactivate", FALSE)
          ELSE Reading(procs[p], "deactivate", DeactivateInsert(s[1], channelId)))

RaceAIMode(p, guild, mode) ==
  LET s == getSettingsByGuildId(settings, GuildKey(guild))
  IN  RaceBegin(p, "aimode",
        Reading(procs[p], "aimode", AIModeInsert(s, GuildKey(guild), mode)))

\* POST /api/settings up to the select of createOrUpdateSettings.
RacePost(p, body) ==
  RaceBegin(p, "settings",
    [Reading(procs[p], "settings", body) EXCEPT
       !.pc = "write",
       !.existing = getSettingsByGuildId(settings, body.guildId) # <<>>])

\* createOrUpdateSettings: "const existing = await getSettingsByGuildId()"
RaceUpsertRead(p) ==
  /\ procs[p].pc = "read"
  /\ procs' = [procs EXCEPT ![p] =
                 [@ EXCEPT !.pc = "write",
                           !.existing =
                              getSettingsByGuildId(settings, procs[p].ins.guildId) # <<>>]]
  /\ UNCHANGED <<storeVars, chunkVars, callVars, runVars, voiceVars>>

\* createOrUpdateSettings: the update or the insert; a unique violation
\* throws into the catch block of the handler.
RaceUpsertWrite(p) ==
  /\ procs[p].pc = "write"
  /\ LET ins == procs[p].ins
         r   == IF procs[p].existing
                  THEN [ok |-> TRUE, tbl |-> updateSettings(settings, ins)]
                  ELSE insertSettings(settings, ins)
     IN  /\ settings' = r.tbl
         /\ procs' = [procs EXCEPT ![p] = Idle(procs[p].ops + 1, procs[p].op, ~r.ok)]
  /\ UNCHANGED <<users, conversations, messages, botStats, last, lastToggle,
                 chunkVars, callVars, runVars, voiceVars>>

NextRace ==
  \/ \E p \in RaceProcs, g \in RaceGuilds : RaceMessage(p, g)
  \/ \E p \in RaceProcs, g \in RaceGuilds, c \in RaceChannels : RaceActivate(p, g, c)
  \/ \E p \in RaceProcs, g \in RaceGuilds, c \in RaceChannels : RaceDeactivate(p, g, c)
  \/ \E p \in RaceProcs, g \in RaceGuilds, m \in RaceModes : RaceAIMode(p, g, m)
  \/ \E p \in RaceProcs, body \in RaceBodies : RacePost(p, body)
  \/ \E p \in RaceProcs : RaceUpsertRead(p)
  \/ \E p \in RaceProcs : RaceUpsertWrite(p)

SpecRace == Init /\ [][NextRace]_vars

(***************************************************************************)
(* One conversation: the turns of one user on one channel, handled one     *)
(* after another, after the client has (or has not yet) become ready.      *)
(***************************************************************************)
TalkPrompts == {<<"h", "i">>, <<"o", "k">>}
TalkOutcome == [kind |-> "text", content |-> <<"o", "k">>]
MaxTalkMessages == 2 * MaxTalkTurns

\* client.once(Events.ClientReady, ...) of bot.ts: the first event of a run.
ClientReady(totalServers) ==
  /\ last.kind = "none"
  /\ botStats' = updateBotStatsReady(botStats, totalServers)
  /\ last' = Event("ready", "", "", "")
  /\ UNCHANGED <<settings, users, conversations, messages, lastToggle, chunkVars, callVars, raceVars, runVars, voiceVars>>

TalkMessage(content) ==
  MessageCreateWithin(MaxTalkMessages, "g1", "c1", "u1", FALSE, content, TalkOutcome)

TalkCommand(prompt) ==
  AICommandWithin(MaxTalkMessages, "g1", "c1", "u1", prompt, TalkOutcome)

NextTalk ==
  \/ ClientReady(1)
  \/ \E p \in TalkPrompts : TalkMessage(p)
  \/ \E p \in TalkPrompts : TalkCommand(p)

SpecTalk == Init /\ [][NextTalk]_vars

(***************************************************************************)
(* The handlers with calls that throw: one event at a time, with the call  *)
(* that throws and the sends of the catch blocks that throw as inputs.     *)
(***************************************************************************)
FailChannels == {"c1"}
FailModes == {"required", "activated"}

\* What the completion call returns: a text or an error.
FailOutcomes ==
  {[kind |-> "text", content |-> <<"o", "k">>],
   [kind |-> "error", content |-> RateLimitNeedle]}

\* The plans of a handler whose calls, none throwing, number points: no
\* call throws, or one of them does and some of the sends of the catch
\* blocks do.
Plans(points) ==
  {NoPlan} \cup [failAt : 1..points, failSends : 0..MaxFailSends]

\* The state after a handler that left r behind.  Of the plans that differ
\* only in sends no catch block made, the one with the fewest is taken.
Handled(kind, guildId, channelId, r, plan) ==
  /\ run.kind = "none"
  /\ plan.failSends <= r.recovered
  /\ Len(r.messages) <= 2 * MaxFailTurns
  /\ settings' = r.settings
  /\ users' = r.users
  /\ conversations' = r.conversations
  /\ messages' = r.messages
  /\ botStats' = r.botStats
  /\ run' = [kind |-> kind, guildId |-> guildId, channelId |-> channelId,
             calls |-> r.calls, response |-> r.response,
             stored |-> SubSeq(r.messages, Len(messages) + 1, Len(r.messages)),
             made |-> r.made, escaped |-> r.thrown]
  /\ UNCHANGED <<last, lastToggle, chunkVars, callVars, raceVars>>

\* client.on(Events.MessageCreate, ...) for a message that no bot wrote.
FailingMessage(guild, channelId, userId, content, outcome) ==
  LET Try(plan) == tryMessageCreate(Stores, settings, guild, channelId, userId,
                                    content, outcome, plan)
  IN  \E plan \in Plans(Try(NoPlan).points) :
        /\ Handled("message", GuildKey(guild), channelId, Try(plan), plan)
        /\ UNCHANGED voiceVars

\* handleSlashCommand with commandName 'ai'
FailingAICommand(guild, channelId, userId, prompt, outcome) ==
  LET Try(plan) == handleSlashCommandCatch(
                     tryHandleAICommand(Stores, settings,
                       TurnStores(Stores, settings, guild, channelId, userId,
                                  prompt, outcome),
                       channelId, userId, plan),
                     plan)
  IN  \E plan \in Plans(Try(NoPlan).points) :
        /\ Handled("ai", GuildKey(guild), channelId, Try(plan), plan)
        /\ UNCHANGED voiceVars

\* handleSlashCommand with commandName 'activate', 'deactivate' or 'aimode'
FailingSettingsCommand(kind, guild, channelId, mode) ==
  LET Try(plan) == handleSlashCommandCatch(
                     trySettingsCommand(kind, Stores, settings, GuildKey(guild),
                                        channelId, mode, plan),
                     plan)
  IN  \E plan \in Plans(Try(NoPlan).points) :
        /\ Handled(kind, GuildKey(guild), channelId, Try(plan), plan)
        /\ UNCHANGED voiceVars

\* handleSlashCommand with a commandName it does not know
FailingUnknownCommand(guild, channelId) ==
  LET Try(plan) == handleSlashCommandCatch(
                     tryUnknownCommand(Stores, settings, plan), plan)
  IN  \E plan \in Plans(Try(NoPlan).points) :
        /\ Handled("unknown", GuildKey(guild), channelId, Try(plan), plan)
        /\ UNCHANGED voiceVars

\* handleSlashCommand with commandName 'joinvoice' or 'leavevoice'
FailingVoiceCommand(kind, guild, channelId, inVoiceChannel) ==
  LET v == VoiceCommand(kind, voiceConnections, voiceLibrary, guild, inVoiceChannel)
      Try(plan) == handleSlashCommandCatch(
                     tryVoiceCommand(kind, Stores, settings, v, voiceLibrary, plan),
                     plan)
  IN  \E plan \in Plans(Try(NoPlan).points) :
        /\ v.lib.created <= MaxFailTurns
        /\ Handled(kind, GuildKey(guild), channelId, Try(plan), plan)
        /\ voiceConnections' =
             VoiceAfter(kind, Try(plan).made, v, voiceConnections, voiceLibrary).map
        /\ voiceLibrary' =
             VoiceAfter(kind, Try(plan).made, v, voiceConnections, voiceLibrary).lib

\* The listener has returned: the next event finds no calls made.
ListenerReturns ==
  /\ run.kind # "none"
  /\ run' = NoRun
  /\ UNCHANGED <<storeVars, chunkVars, callVars, raceVars, voiceVars>>

NextFail ==
  \/ \E g \in EventGuilds, c \in FailChannels, u \in UserIds, p \in Prompts,
        o \in FailOutcomes :
       FailingMessage(g, c, u, p, o)
  \/ \E g \in EventGuilds, c \in FailChannels, u \in UserIds, p \in Prompts,
        o \in FailOutcomes :
       FailingAICommand(g, c, u, p, o)
  \/ \E kind \in {"activate", "deactivate"}, g \in EventGuilds,
        c \in FailChannels :
       FailingSettingsCommand(kind, g, c, "")
  \/ \E g \in EventGuilds, m \in FailModes :
       FailingSettingsCommand("aimode", g, "", m)
  \/ \E g \in EventGuilds, c \in FailChannels :
       FailingUnknownCommand(g, c)
  \/ \E kind \in {"joinvoice", "leavevoice"}, g \in EventGuilds,
        c \in FailChannels, v \in BOOLEAN :
       FailingVoiceCommand(kind, g, c, v)
  \/ ListenerReturns

SpecFail == Init /\ [][NextFail]_vars

(***************************************************************************)
(* The voice commands and the disconnection events, interleaved: a voice   *)
(* handler runs without a pause up to its one await, the reply, and other  *)
(* handlers and events run before that reply returns.                      *)
(***************************************************************************)
VoiceGuilds == {"g1", "g2", NoGuild}

\* A voice handler awaiting its reply.
Replying(op, guild, existing) ==
  [Idle(0, op, FALSE) EXCEPT !.pc = "reply", !.ins = EmptyBody(guild),
                             !.existing = existing]

\* handleJoinVoiceCommand up to "await interaction.reply"
VoiceJoin(p, guild, inVoiceChannel) ==
  LET r == handleJoinVoiceCommand(voiceConnections, voiceLibrary, guild, inVoiceChannel)
  IN  /\ procs[p].pc = "idle"
      /\ r.lib.created <= MaxVoiceJoins
      /\ voiceConnections' = r.map
      /\ voiceLibrary' = r.lib
      /\ procs' = [procs EXCEPT ![p] = Replying("joinvoice", guild, r.existing)]
      /\ UNCHANGED <<storeVars, chunkVars, callVars, runVars>>

\* handleLeaveVoiceCommand up to "await interaction.reply"
VoiceLeave(p, guild) ==
  LET r == handleLeaveVoiceCommand(voiceConnections, voiceLibrary, guild)
  IN  /\ procs[p].pc = "idle"
      /\ voiceConnections' = r.map
      /\ voiceLibrary' = r.lib
      /\ procs' = [procs EXCEPT ![p] = Replying("leavevoice", guild, r.existing)]
      /\ UNCHANGED <<storeVars, chunkVars, callVars, runVars>>

\* The reply of a voice handler returns and the handler ends.
VoiceReplied(p) ==
  /\ procs[p].pc = "reply"
  /\ procs' = [procs EXCEPT ![p] = Idle(0, procs[p].op, FALSE)]
  /\ UNCHANGED <<storeVars, chunkVars, callVars, runVars, voiceVars>>

\* The transport of a tracked connection drops: the connection becomes
\* disconnected and its Disconnected listener runs.
VoiceDisconnected(c) ==
  /\ c \in voiceLibrary.tracked
  /\ c.status = "ready"
  /\ voiceLibrary' = [voiceLibrary EXCEPT !.tracked =
                        (@ \ {c}) \cup {[c EXCEPT !.status = "disconnected"]}]
  /\ voiceConnections' = onDisconnected(voiceConnections, c.guildId)
  /\ UNCHANGED <<storeVars, chunkVars, callVars, raceVars, runVars>>

\* The library brings a disconnected connection back by itself.
VoiceRecovered(c) ==
  /\ c \in voiceLibrary.tracked
  /\ c.status = "disconnected"
  /\ voiceLibrary' = [voiceLibrary EXCEPT !.tracked =
                        (@ \ {c}) \cup {[c EXCEPT !.status = "ready"]}]
  /\ UNCHANGED <<storeVars, chunkVars, callVars, raceVars, runVars, voiceConnections>>

NextVoice ==
  \/ \E p \in RaceProcs, g \in VoiceGuilds, v \in BOOLEAN : VoiceJoin(p, g, v)
  \/ \E p \in RaceProcs, g \in VoiceGuilds : VoiceLeave(p, g)
  \/ \E p \in RaceProcs : VoiceReplied(p)
  \/ \E c \in voiceLibrary.tracked : VoiceDisconnected(c)
  \/ \E c \in voiceLibrary.tracked : VoiceRecovered(c)

SpecVoice == Init /\ [][NextVoice]_vars

(***************************************************************************)
(* splitMessage as a function of its inputs.                               *)
(***************************************************************************)
Alphabet == {"a", "b", " ", "\n"}
Texts == UNION {[1..n -> Alphabet] : n \in 0..MaxTextLen}

\* A response at Discord's scale: the line 'a', then one line of 3000 'b'.
LongLineText == <<"a", "\n">> \o [i \in 1..3000 |-> "b"]

\* The inputs of splitMessage: every small text at every small maxLength,
\* and the long text at the length the handlers pass.
ChunkInputs ==
  {[text |-> t, maxLength |-> m] : t \in Texts, m \in 1..MaxChunkLen}
    \cup {[text |-> LongLineText, maxLength |-> DiscordChunkLength]}
    \cup {[text |-> <<"a", "a", "a", "a", "\n", "b">>, maxLength |-> 3]}

InitChunk ==
  /\ settings = {}
  /\ users = {}
  /\ conversations = <<>>
  /\ messages = <<>>
  /\ botStats = <<>>
  /\ last = Event("none", "", "", "")
  /\ lastToggle = [p \in GuildKeys \X Channels |-> "none"]
  /\ \E in \in ChunkInputs : text = in.text /\ maxLength = in.maxLength
  /\ chunks = <<>>
  /\ rechunked = <<>>
  /\ step = "input"
  /\ call = NoCall
  /\ result = <<>>
  /\ procs = NoProcs
  /\ run = NoRun
  /\ voiceConnections = {}
  /\ voiceLibrary = NoVoice

SplitText ==
  /\ step = "input"
  /\ chunks' = splitMessage(text, maxLength)
  /\ step' = "split"
  /\ UNCHANGED <<text, maxLength, rechunked, storeVars, callVars, raceVars, runVars, voiceVars>>

Rechunk ==
  /\ step = "split"
  /\ rechunked' = [i \in 1..Len(chunks) |-> splitMessage(chunks[i], maxLength)]
  /\ step' = "rechunked"
  /\ UNCHANGED <<text, maxLength, chunks, storeVars, callVars, raceVars, runVars, voiceVars>>

NextChunk == SplitText \/ Rechunk

SpecChunk == InitChunk /\ [][NextChunk]_vars

(***************************************************************************)
(* The delivery of a response by the two handlers, as a function of the    *)
(* response and of the send that throws.                                   *)
(***************************************************************************)
Repeat(c, n) == [i \in 1..n |-> c]

\* Responses at Discord's scale: a line of exactly 1900 characters, one of
\* 1901, a short line before a line of 3000, 1901 spaces, and three lines
\* of 1000 characters.
LongResponses ==
  {Repeat("b", DiscordChunkLength),
   Repeat("b", DiscordChunkLength + 1),
   LongLineText,
   Repeat(" ", DiscordChunkLength + 1),
   Repeat("a", 1000) \o <<"\n">> \o Repeat("b", 1000) \o <<"\n">> \o Repeat("a", 1000)}

\* What generateAIResponse returns is never the empty string.
DeliverResponses == (Texts \ {<<>>}) \cup LongResponses

InitDeliver ==
  /\ settings = {}
  /\ users = {}
  /\ conversations = <<>>
  /\ messages = <<>>
  /\ botStats = <<>>
  /\ last = Event("none", "", "", "")
  /\ lastToggle = [p \in GuildKeys \X Channels |-> "none"]
  /\ text \in DeliverResponses
  /\ maxLength = DiscordChunkLength
  /\ chunks = <<>>
  /\ rechunked = <<>>
  /\ step = "input"
  /\ call = NoCall
  /\ result = <<>>
  /\ procs = NoProcs
  /\ run = NoRun
  /\ voiceConnections = {}
  /\ voiceLibrary = NoVoice

\* The sends of a delivery as awaited calls.
DeliverCalls(sends) == [i \in 1..Len(sends) |-> GatewayCall(sends[i])]

\* The calls made when none of them throws or the failAt-th does.
Delivered(kind, response, calls) ==
  \E failAt \in 0..Len(calls) :
  /\ run.kind = "none"
  /\ run' = [NoRun EXCEPT !.kind = kind, !.response = response,
                          !.made = Attempt(calls, failAt).made,
                          !.escaped = Attempt(calls, failAt).thrown]
  /\ UNCHANGED <<storeVars, chunkVars, callVars, raceVars, voiceVars>>

\* handler.ts 59-69
DeliverReply ==
  Delivered("message", text, DeliverCalls(Deliver(text, "reply", "send")))

\* slashCommands.ts 395 and 448-457: the reply is deferred, then edited.
DeliverEdit ==
  Delivered("ai", text,
            <<Awaited("deferReply")>>
              \o DeliverCalls(Deliver(text, "editReply", "followUp")))

NextDeliver == DeliverReply \/ DeliverEdit

SpecDeliver == InitDeliver /\ [][NextDeliver]_vars

(***************************************************************************)
(* One plain message followed from its arrival to the end of its handler,  *)
(* one awaited call per step (bot.ts 35-80, handler.ts 5-81).  A call      *)
(* returns or throws; the sends of the gateway return.  The handler runs   *)
(* alone, so the stores a call leaves behind are those of the pipeline t   *)
(* computed when the message is admitted.                                  *)
(***************************************************************************)
LiveProc == "p1"
LiveGuilds == {"g1"}
LiveModes == {"required", "disabled"}

\* The handler between two messages, after turn messages.
LiveIdle(turn) ==
  [pc |-> "idle", calls |-> <<>>, t |-> <<>>, admitted |-> FALSE, turn |-> turn,
   guild |-> "", channelId |-> "", userId |-> "", content |-> <<>>,
   outcome |-> <<>>]

InitLive ==
  /\ settings = {}
  /\ users = {}
  /\ conversations = <<>>
  /\ messages = <<>>
  /\ botStats = <<>>
  /\ last = Event("none", "", "", "")
  /\ lastToggle = [p \in GuildKeys \X Channels |-> "none"]
  /\ text = <<>>
  /\ maxLength = 1
  /\ chunks = <<>>
  /\ rechunked = <<>>
  /\ step = "input"
  /\ call = NoCall
  /\ result = <<>>
  /\ procs = [p \in RaceProcs |-> LiveIdle(0)]
  /\ run = NoRun
  /\ voiceConnections = {}
  /\ voiceLibrary = NoVoice

IsSend(c) == c.op \in {"reply", "send", "editReply", "followUp"}

\* /aimode, handled in one piece between two messages.
LiveAIMode(guild, mode) ==
  /\ procs[LiveProc].pc = "idle"
  /\ settings' = handleAIModeCommand(settings, GuildKey(guild), mode)
  /\ settings' # settings
  /\ UNCHANGED <<users, conversations, messages, botStats, last, lastToggle,
                 chunkVars, callVars, raceVars, runVars, voiceVars>>

\* The listener is called with a message no bot wrote and is before its
\* first await.
LiveArrive(guild, channelId, userId, content, outcome) ==
  /\ procs[LiveProc].pc = "idle"
  /\ procs[LiveProc].turn < MaxLiveTurns
  /\ procs' = [procs EXCEPT ![LiveProc] =
       [LiveIdle(@.turn) EXCEPT
          !.pc = "listener",
          !.calls = SettingsLoads(settings, GuildKey(guild)),
          !.guild = guild, !.channelId = channelId, !.userId = userId,
          !.content = content, !.outcome = outcome]]
  /\ run' = [NoRun EXCEPT !.kind = "message", !.guildId = GuildKey(guild),
                          !.channelId = channelId]
  /\ UNCHANGED <<storeVars, chunkVars, callVars, voiceVars>>

\* The stores after the call c of the handler pr returned.
LiveStores(pr, c) ==
  /\ settings' = IF c.op = "createOrUpdateSettings"
                   THEN SettingsLoaded(settings, GuildKey(pr.guild)) ELSE settings
  /\ users' = IF c.op = "createUser" THEN pr.t.users ELSE users
  /\ conversations' = IF c.op = "createConversation"
                        THEN pr.t.conversations ELSE conversations
  /\ messages' = IF c.op = "createMessage"
                   THEN SubSeq(pr.t.messages, 1, Len(messages) + 1) ELSE messages
  /\ botStats' = IF c.op = "updateBotStats" THEN pr.t.botStats ELSE botStats

\* The call the handler awaits returns.
LiveReturn ==
  /\ procs[LiveProc].calls # <<>>
  /\ LiveStores(procs[LiveProc], Head(procs[LiveProc].calls))
  /\ run' = [run EXCEPT
       !.made = Append(@, Head(procs[LiveProc].calls)),
       !.calls = IF Head(procs[LiveProc].calls).op = "generateAIResponse"
                   THEN procs[LiveProc].t.calls ELSE @,
       !.response = IF Head(procs[LiveProc].calls).op = "generateAIResponse"
                      THEN procs[LiveProc].t.response ELSE @]
  /\ procs' = [procs EXCEPT ![LiveProc].calls = Tail(@)]
  /\ UNCHANGED <<last, lastToggle, chunkVars, callVars, voiceVars>>

\* The call the handler awaits throws: control goes to the catch block of
\* handleMessage or, from the calls of the listener, to the listener's own.
LiveThrow ==
  /\ procs[LiveProc].pc \in {"listener", "handler"}
  /\ procs[LiveProc].calls # <<>>
  /\ CanThrow(Head(procs[LiveProc].calls))
  /\ ~IsSend(Head(procs[LiveProc].calls))
  /\ run' = [run EXCEPT
       !.made = Append(@, [Head(procs[LiveProc].calls) EXCEPT !.ok = FALSE])]
  /\ procs' = [procs EXCEPT
       ![LiveProc].pc = "catch",
       ![LiveProc].calls = IF procs[LiveProc].pc = "handler"
                             THEN HandlerCatchCalls ELSE <<LogCall>>]
  /\ UNCHANGED <<storeVars, chunkVars, callVars, voiceVars>>

\* The handler pr as it enters handleMessage, t the pipeline of the turn.
Admitted(pr, t) ==
  [pr EXCEPT !.pc = "handler", !.admitted = TRUE, !.t = t,
             !.calls = TurnCalls(Stores, t, pr.channelId, pr.userId, "reply", "send")]

\* The settings are loaded: the policy is applied (bot.ts 56-74) and
\* handleMessage is called if it admits the message.
LivePolicy ==
  /\ procs[LiveProc].pc = "listener"
  /\ procs[LiveProc].calls = <<>>
  /\ procs' = [procs EXCEPT ![LiveProc] =
       IF MessageCreateAdmits(
            getSettingsByGuildId(settings, GuildKey(procs[LiveProc].guild))[1],
            procs[LiveProc].channelId)
         THEN Admitted(procs[LiveProc],
                TurnStores(Stores, settings, procs[LiveProc].guild,
                           procs[LiveProc].channelId, procs[LiveProc].userId,
                           procs[LiveProc].content, procs[LiveProc].outcome))
         ELSE [procs[LiveProc] EXCEPT !.pc = "denied"]]
  /\ UNCHANGED <<storeVars, chunkVars, callVars, runVars, voiceVars>>

\* The listener returns.
LiveFinish ==
  /\ procs[LiveProc].pc \in {"handler", "catch", "denied"}
  /\ procs[LiveProc].calls = <<>>
  /\ procs' = [procs EXCEPT ![LiveProc] = LiveIdle(@.turn + 1)]
  /\ UNCHANGED <<storeVars, chunkVars, callVars, runVars, voiceVars>>

\* A step of the handler that is under way.
LiveProgress == LiveReturn \/ LiveThrow \/ LivePolicy \/ LiveFinish

NextLive ==
  \/ \E g \in LiveGuilds, m \in LiveModes : LiveAIMode(g, m)
  \/ \E g \in LiveGuilds, c \in FailChannels, u \in UserIds, p \in Prompts,
        o \in FailOutcomes :
       LiveArrive(g, c, u, p, o)
  \/ LiveReturn
  \/ LiveThrow
  \/ LivePolicy
  \/ LiveFinish

\* Every call returns or fails in the end, and the event loop resumes the
\* handler that awaits it: a step of the handler that stays possible is
\* taken.  No message has to arrive.
SpecLive == InitLive /\ [][NextLive]_vars /\ WF_vars(LiveProgress)

(***************************************************************************)
(* The configuration commands of one guild, interleaved: activate and      *)
(* deactivate on two channels and the mode command, each reading the row   *)
(* (slashCommands.ts 476, 521, 556) and writing it back whole through      *)
(* createOrUpdateSettings (230-250).                                       *)
(***************************************************************************)
UpdateModes == {"required"}

NextUpdates ==
  \/ \E p \in RaceProcs, c \in Channels : RaceActivate(p, "g1", c)
  \/ \E p \in RaceProcs, c \in Channels : RaceDeactivate(p, "g1", c)
  \/ \E p \in RaceProcs, m \in UpdateModes : RaceAIMode(p, "g1", m)
  \/ \E p \in RaceProcs : RaceUpsertRead(p)
  \/ \E p \in RaceProcs : RaceUpsertWrite(p)

SpecUpdates == Init /\ [][NextUpdates]_vars

(***************************************************************************)
(* The get-or-create of the conversation and the two stores of a turn      *)
(* (handler.ts 16-57, slashCommands.ts 406-446), one awaited call per      *)
(* step, for two handlers that run interleaved.                            *)
(***************************************************************************)
ConvChannels == {"c1", "c2"}

\* A handler between turns.
ConvIdle ==
  [pc |-> "idle", channelId |-> "", userId |-> "", conversation |-> <<>>,
   seen |-> 0, content |-> <<>>, stored |-> 0, request |-> <<>>]

\* What the users write; the Completion Service answers 'ok'.
ConvPrompts == {<<"h", "i">>, <<"o", "k">>}
ConvOutcome == [kind |-> "text", content |-> <<"o", "k">>]

\* The turns begun: those under way and those that stored their answer.
TurnsBegun ==
  Cardinality({p \in RaceProcs : procs[p].pc # "idle"})
    + Cardinality({i \in 1..Len(messages) : messages[i].role = "assistant"})

InitConv ==
  /\ settings = {}
  /\ users = {}
  /\ conversations = <<>>
  /\ messages = <<>>
  /\ botStats = <<>>
  /\ last = Event("none", "", "", "")
  /\ lastToggle = [p \in GuildKeys \X Channels |-> "none"]
  /\ text = <<>>
  /\ maxLength = 1
  /\ chunks = <<>>
  /\ rechunked = <<>>
  /\ step = "input"
  /\ call = NoCall
  /\ result = <<>>
  /\ procs = [p \in RaceProcs |-> ConvIdle]
  /\ run = NoRun
  /\ voiceConnections = {}
  /\ voiceLibrary = NoVoice

\* "let user = await storage.getUserByDiscordId(...)", the first call of a
\* turn: run.kind tells whether every turn so far began with no other
\* under way.
ConvUserLookup(p, channelId, userId, content) ==
  /\ procs[p].pc = "idle"
  /\ TurnsBegun < MaxConvTurns
  /\ procs' = [procs EXCEPT ![p] =
       [ConvIdle EXCEPT !.pc = IF getUserByDiscordId(users, userId) = <<>>
                                 THEN "createUser" ELSE "lookup",
                        !.channelId = channelId, !.userId = userId,
                        !.content = content]]
  /\ run' = [run EXCEPT !.kind =
       IF @ # "overlapped" /\ \A q \in RaceProcs : procs[q].pc = "idle"
         THEN "serial" ELSE "overlapped"]
  /\ UNCHANGED <<storeVars, chunkVars, callVars, voiceVars>>

\* "if (!user) user = await storage.createUser(...)": discord_id is unique,
\* so the insert throws when another turn has created the user meanwhile,
\* and the turn ends in the catch block of its handler.
ConvUserCreate(p) ==
  /\ procs[p].pc = "createUser"
  /\ IF getUserByDiscordId(users, procs[p].userId) = <<>>
       THEN /\ users' = createUser(users, procs[p].userId)
            /\ procs' = [procs EXCEPT ![p].pc = "lookup"]
       ELSE /\ users' = users
            /\ procs' = [procs EXCEPT ![p] = ConvIdle]
  /\ UNCHANGED <<settings, conversations, messages, botStats, last, lastToggle,
                 chunkVars, callVars, runVars, voiceVars>>

\* "let conversation = await storage.getConversationByChannelAndUser(...)"
ConvLookup(p) ==
  /\ procs[p].pc = "lookup"
  /\ procs' = [procs EXCEPT
       ![p].pc = IF getConversationByChannelAndUser(conversations, procs[p].channelId,
                                                    procs[p].userId) = <<>>
                   THEN "create" ELSE "store",
       ![p].conversation = getConversationByChannelAndUser(conversations,
                             procs[p].channelId, procs[p].userId),
       ![p].seen = Len(conversations)]
  /\ UNCHANGED <<storeVars, chunkVars, callVars, runVars, voiceVars>>

\* "if (!conversation) conversation = await storage.createConversation(...)"
ConvCreate(p) ==
  /\ procs[p].pc = "create"
  /\ conversations' = createConversation(conversations, procs[p].userId,
                                         procs[p].channelId, "g1")
  /\ procs' = [procs EXCEPT ![p].pc = "store",
                            ![p].conversation = <<conversations'[Len(conversations')]>>]
  /\ UNCHANGED <<settings, users, messages, botStats, last, lastToggle,
                 chunkVars, callVars, runVars, voiceVars>>

\* "await storage.createMessage({conversationId: conversation.id, ...})" for
\* the message of the user
ConvStoreUser(p) ==
  /\ procs[p].pc = "store"
  /\ messages' = createMessage(messages, procs[p].conversation[1].id,
                               procs[p].content, "user")
  /\ procs' = [procs EXCEPT ![p].pc = "read",
                            ![p].stored = Len(messages')]
  /\ UNCHANGED <<settings, users, conversations, botStats, last, lastToggle,
                 chunkVars, callVars, runVars, voiceVars>>

\* "const recentMessages = await storage.getMessagesByConversation(...)",
\* the window of it, the settings of the guild, and the request that
\* generateAIResponse makes of them (handler.ts 38-50).
ConvRead(p) ==
  /\ procs[p].pc = "read"
  /\ procs' = [procs EXCEPT
       ![p].pc = "answer",
       ![p].request =
          generateAIResponse(procs[p].content,
            SliceLast(getMessagesByConversation(messages, procs[p].conversation[1].id),
                      ContextSize),
            <<>>, <<>>, ConvOutcome).request.messages]
  /\ UNCHANGED <<storeVars, chunkVars, callVars, runVars, voiceVars>>

\* the same call for the response, which ends the part of the turn that
\* uses the conversation
ConvStoreAnswer(p) ==
  /\ procs[p].pc = "answer"
  /\ messages' = createMessage(messages, procs[p].conversation[1].id,
                               CompletionResponse(ConvOutcome), "assistant")
  /\ procs' = [procs EXCEPT ![p] = ConvIdle]
  /\ UNCHANGED <<settings, users, conversations, botStats, last, lastToggle,
                 chunkVars, callVars, runVars, voiceVars>>

NextConv ==
  \/ \E p \in RaceProcs, c \in ConvChannels, u \in UserIds, m \in ConvPrompts :
       ConvUserLookup(p, c, u, m)
  \/ \E p \in RaceProcs : ConvUserCreate(p)
  \/ \E p \in RaceProcs : ConvLookup(p)
  \/ \E p \in RaceProcs : ConvCreate(p)
  \/ \E p \in RaceProcs : ConvStoreUser(p)
  \/ \E p \in RaceProcs : ConvRead(p)
  \/ \E p \in RaceProcs : ConvStoreAnswer(p)

SpecConv == InitConv /\ [][NextConv]_vars

(***************************************************************************)
(* generateAIResponse as a function of its arguments and of what the       *)
(* Completion Service does with the request.                               *)
(***************************************************************************)
AIMessages == {<<"h", "i">>, <<"o", "k">>}

\* generateAIResponse reads the role and the content of a context message.
ContextEntries == [role : {"user", "assistant"}, content : AIMessages]
AIContexts == UNION {[1..n -> ContextEntries] : n \in 0..MaxContextLen}

\* settings?.personality and settings?.responseLength: absent, the values
\* of the dashboard, a value no switch names.
Personalities ==
  {<<>>, <<"helpful">>, <<"friendly">>, <<"technical">>, <<"creative">>, <<"Creative">>}
ResponseLengths ==
  {<<>>, <<"concise">>, <<"medium">>, <<"detailed">>, <<"long">>}

AIOutcomes ==
  {[kind |-> "text", content |-> <<"o", "k">>],
   [kind |-> "text", content |-> <<>>],
   [kind |-> "error", content |-> <<"4", "2", "9", " ">> \o RateLimitNeedle \o <<"!">>],
   [kind |-> "error", content |-> <<"n", "o", " ">> \o ApiKeyNeedle],
   [kind |-> "error", content |-> ApiKeyNeedle \o <<" ">> \o RateLimitNeedle],
   [kind |-> "error", content |-> <<"R">> \o Tail(RateLimitNeedle)],
   [kind |-> "error", content |-> <<>>],
   [kind |-> "thrown", content |-> RateLimitNeedle]}

AICalls ==
  [message : AIMessages, contextMessages : AIContexts, personality : Personalities,
   responseLength : ResponseLengths, outcome : AIOutcomes]

InitAI ==
  /\ settings = {}
  /\ users = {}
  /\ conversations = <<>>
  /\ messages = <<>>
  /\ botStats = <<>>
  /\ last = Event("none", "", "", "")
  /\ lastToggle = [p \in GuildKeys \X Channels |-> "none"]
  /\ text = <<>>
  /\ maxLength = 1
  /\ chunks = <<>>
  /\ rechunked = <<>>
  /\ step = "input"
  /\ call \in AICalls
  /\ result = <<>>
  /\ procs = NoProcs
  /\ run = NoRun
  /\ voiceConnections = {}
  /\ voiceLibrary = NoVoice

Generate ==
  /\ result = <<>>
  /\ result' = <<generateAIResponse(call.message, call.contextMessages,
                                    call.personality, call.responseLength,
                                    call.outcome)>>
  /\ UNCHANGED <<call, storeVars, chunkVars, raceVars, runVars, voiceVars>>

NextAI == Generate

SpecAI == InitAI /\ [][NextAI]_vars

(***************************************************************************)
(* Properties.  The reference predicates below restate the decision rules  *)
(* on sets, independently of the operators that model the handler.         *)
(***************************************************************************)
ListSet(list) == {list[i] : i \in 1..Len(list)}

\* The event handled last is a plain message of a human author.
PlainMessage == last.kind = "message" /\ ~last.bot

\* The settings row the handler of the last event decided on.
Seen == last.seen[1]

Rule1Denies(s, c) ==
  s.channelMode = "specific" /\ ListSet(s.allowedChannels) # {}
    /\ c \notin ListSet(s.allowedChannels)
Rule2Denies(s) == s.slashCommandMode = "required"
Rule3Denies(s, c) ==
  s.slashCommandMode = "activated" /\ c \notin ListSet(s.activatedChannels)

\* Nothing of the reply pipeline happened in the last event.
NothingDone ==
  ~last.admitted /\ last.calls = <<>> /\ last.sent = <<>> /\ last.stored = <<>>

\* C1: a plain message in a guild whose stored mode is 'required' is denied
\* (handleMessage is not invoked, no completion call is made, nothing is
\* stored and no reply is sent), whatever the channel mode, the allowed
\* channels, the activated channels and the channel of the event.
C1_RequiredDenies ==
  (PlainMessage /\ Seen.slashCommandMode = "required") => NothingDone

\* A message is denied in mode 'required' although its channel is allowed by
\* a channel restriction and is an activated channel.
C1_Witness ==
  /\ PlainMessage
  /\ Seen.slashCommandMode = "required"
  /\ Seen.channelMode = "specific"
  /\ last.channelId \in ListSet(Seen.allowedChannels)
  /\ last.channelId \in ListSet(Seen.activatedChannels)
  /\ NothingDone

\* C2: in mode 'activated' a plain message on a channel that is not in the
\* activated set is denied, and one on a channel of the set is admitted
\* unless the channel restriction (rule 1) denies it.
C2_ActivatedMode ==
  (PlainMessage /\ Seen.slashCommandMode = "activated") =>
     /\ last.channelId \notin ListSet(Seen.activatedChannels) => NothingDone
     /\ (last.channelId \in ListSet(Seen.activatedChannels)
           /\ ~Rule1Denies(Seen, last.channelId)) => last.admitted

\* With activated set {c1}, a message on c2 is denied.
C2_Witness ==
  /\ PlainMessage
  /\ Seen.slashCommandMode = "activated"
  /\ Seen.activatedChannels = <<"c1">>
  /\ Seen.channelMode = "all"
  /\ last.channelId = "c2"
  /\ NothingDone

\* C3: the channel restriction wins over every mode: with channel mode
\* 'specific', a non-empty allowed set and a channel outside it, the message
\* is denied in all four modes; with an empty allowed set or channel mode
\* 'all' the restriction denies nothing, the mode rules alone decide.
C3_RestrictionFirst ==
  PlainMessage =>
     /\ (Seen.channelMode = "specific" /\ Seen.allowedChannels # <<>>
           /\ last.channelId \notin ListSet(Seen.allowedChannels)) => NothingDone
     /\ (Seen.channelMode = "all" \/ Seen.allowedChannels = <<>>) =>
           (last.admitted <=> ~(Rule2Denies(Seen) \/ Rule3Denies(Seen, last.channelId)))

\* A message on an activated channel is denied because the channel is not
\* among the allowed ones.
C3_Witness ==
  /\ PlainMessage
  /\ Seen.channelMode = "specific"
  /\ Seen.allowedChannels = <<"c1">>
  /\ last.channelId = "c2"
  /\ Seen.slashCommandMode = "activated"
  /\ "c2" \in ListSet(Seen.activatedChannels)
  /\ NothingDone

\* The four-rule reference decision: first match wins, otherwise admit.
ReferenceDecision(s, c) ==
  CASE Rule1Denies(s, c) -> FALSE
    [] Rule2Denies(s) -> FALSE
    [] Rule3Denies(s, c) -> FALSE
    [] OTHER -> TRUE

\* C4: the decision for a non-bot plain message is the four-rule reference
\* function of (channel mode, allowed set, mode, activated set, channel);
\* modes 'disabled' and 'enabled' decide alike: they admit exactly the
\* events that pass the channel restriction.
C4_ReferenceDecision ==
  PlainMessage =>
     /\ last.admitted = ReferenceDecision(Seen, last.channelId)
     /\ Seen.slashCommandMode \in {"disabled", "enabled"} =>
          last.admitted = ~Rule1Denies(Seen, last.channelId)

\* A message is admitted in mode 'enabled' on a channel that is not
\* activated, under a channel restriction that allows the channel.
C4_Witness ==
  /\ PlainMessage
  /\ Seen.slashCommandMode = "enabled"
  /\ Seen.channelMode = "specific"
  /\ last.channelId \in ListSet(Seen.allowedChannels)
  /\ last.channelId \notin ListSet(Seen.activatedChannels)
  /\ last.admitted

\* The last event ran the whole pipeline of /ai: the deferred reply, the
\* user message stored, one completion call, the assistant message stored
\* and the response delivered by editing the deferred reply.
FullAIPipeline ==
  /\ last.admitted
  /\ Len(last.calls) = 1
  /\ Len(last.stored) = 2
  /\ last.stored[1].role = "user"
  /\ last.stored[1].content \in Prompts
  /\ last.stored[2].role = "assistant"
  /\ last.stored[1].conversationId = last.stored[2].conversationId
  /\ Len(last.sent) = 2
  /\ last.sent[1].op = "deferReply"
  /\ last.sent[2].op = "editReply"
  /\ last.sent[2].content = last.stored[2].content

\* C5: the /ai command always admits: whatever the settings of the guild
\* (mode 'required', mode 'activated' on a channel that is not activated, a
\* channel restriction that excludes the channel, or no settings row) the
\* command runs the full pipeline.
C5_AskAlwaysAdmits == last.kind = "ai" => FullAIPipeline

\* /ai runs in mode 'required' on a channel the restriction excludes.
C5_Witness ==
  /\ last.kind = "ai"
  /\ last.seen # <<>>
  /\ Seen.slashCommandMode = "required"
  /\ Rule1Denies(Seen, last.channelId)
  /\ FullAIPipeline

\* The last successful toggle command on the channel of the last event that
\* no later toggle on the channel, set-mode or settings upsert superseded.
ToggleOfLast == lastToggle[<<last.guildId, last.channelId>>]

ModeOf(tbl, guildId) ==
  LET s == getSettingsByGuildId(tbl, guildId)
  IN  IF s = <<>> THEN "disabled" ELSE s[1].slashCommandMode

C9_ChunkBound ==
  step # "input" =>
     /\ Len(chunks) >= 1
     /\ \A i \in 1..Len(chunks) : Len(chunks[i]) <= maxLength

\* A text with an oversized line was split into three or more chunks, one
\* of them a slice of exactly maxLength characters.
C9_Witness ==
  /\ step = "split"
  /\ Len(text) > maxLength
  /\ Len(chunks) >= 3
  /\ \E i \in 1..Len(chunks) : Len(chunks[i]) = maxLength
  /\ \E l \in ListSet(Split(text)) : Len(l) > maxLength

\* C10: chunking is idempotent on its own output: splitting a chunk again
\* with the same maxLength returns that chunk alone and unchanged, and a
\* text of at most maxLength characters is returned as the one element.
C10_Idempotent ==
  /\ step = "rechunked" =>
       /\ Len(rechunked) = Len(chunks)
       /\ \A i \in 1..Len(chunks) : rechunked[i] = <<chunks[i]>>
  /\ (step # "input" /\ Len(text) <= maxLength) => chunks = <<text>>

\* A hard-sliced chunk of exactly maxLength characters that starts with
\* white space was split again and came back unchanged.
C10_Witness ==
  /\ step = "rechunked"
  /\ Len(chunks) >= 2
  /\ \E i \in 1..Len(chunks) :
       /\ Len(chunks[i]) = maxLength
       /\ chunks[i][1] \in Whitespace
       /\ rechunked[i] = <<chunks[i]>>

\* The messages of the conversation of the last turn that were stored when
\* its completion request was made, in creation order.
StoredAtRequest ==
  LET Keep(m) == /\ m.conversationId = last.stored[1].conversationId
                 /\ m.id <= last.stored[1].id
  IN  SelectSeq(messages, Keep)

\* C11: in a conversation whose turns are handled one after another, the
\* context of a turn's completion request is the last min(10, n) stored
\* messages of the conversation, oldest first, where n counts the user
\* message stored at the start of the turn; that message is the last entry
\* of the context; the context of turn 12 has exactly 10 entries.
C11_ContextWindow ==
  last.admitted =>
    LET n == Len(StoredAtRequest)
        k == IF n < 10 THEN n ELSE 10
    IN  /\ last.stored[1].role = "user"
        /\ Len(last.context) = k
        /\ \A i \in 1..k : last.context[i] = StoredAtRequest[n - k + i]
        /\ last.context[k] = last.stored[1]
        /\ n = 23 => Len(last.context) = 10

\* Turn 12 of a conversation: 23 messages are stored when the request is
\* made and the context runs from the 14th, an assistant message, to the
\* 23rd, the user message of this turn.
C11_Witness ==
  /\ last.admitted
  /\ Len(StoredAtRequest) = 23
  /\ Len(last.context) = 10
  /\ last.context[1].id = 14
  /\ last.context[1].role = "assistant"
  /\ last.context[10] = last.stored[1]

\* C12: the messages of the completion request are the system instruction,
\* then every context message in order with its stored role and content,
\* then the prompt with role user, except that the prompt is not appended
\* when the content of the last context message is identical to it; with
\* the context of a sequentially handled turn, which ends with the user
\* message of the turn, the sequence has 1 + |context| entries and carries
\* the prompt once at its end.
C12_PromptSequence ==
  result # <<>> =>
    LET msgs == result[1].request.messages
        ctx  == call.contextMessages
        n    == Len(ctx)
        same == n > 0 /\ ctx[n].content = call.message
    IN  /\ msgs[1].role = "system"
        /\ \A i \in 1..n : /\ msgs[i + 1].role = ctx[i].role
                            /\ msgs[i + 1].content = ctx[i].content
        /\ same => Len(msgs) = 1 + n
        /\ ~same => /\ Len(msgs) = 2 + n
                     /\ msgs[n + 2].role = "user"
                     /\ msgs[n + 2].content = call.message
        /\ (n > 0 /\ ctx[n] = [role |-> "user", content |-> call.message]) =>
              /\ Len(msgs) = 1 + n
              /\ msgs[Len(msgs)].role = "user"
              /\ msgs[Len(msgs)].content = call.message

\* The context ends with the user message of the turn, after an assistant
\* message of the same content: the request has three entries.
C12_Witness ==
  /\ result # <<>>
  /\ call.message = <<"o", "k">>
  /\ call.contextMessages = <<[role |-> "assistant", content |-> <<"o", "k">>],
                              [role |-> "user", content |-> <<"o", "k">>]>>
  /\ Len(result[1].request.messages) = 3
  /\ result[1].request.messages[3].role = "user"

\* C13: a plain-message turn or an /ai turn that completes its pipeline with
\* no other turn running leaves the total message count and the API call
\* count of the counters record each exactly one greater than before, for
\* every prior value (no record yet counts as 0, a record with value 0
\* included).
C13_CountersIncrement ==
  [][last'.admitted =>
       /\ botStats' # <<>>
       /\ botStats'[1].totalMessages =
            (IF botStats = <<>> THEN 0 ELSE botStats[1].totalMessages) + 1
       /\ botStats'[1].apiCalls =
            (IF botStats = <<>> THEN 0 ELSE botStats[1].apiCalls) + 1]_vars

\* The step handles a non-bot plain message of a guild without settings row.
FirstContact ==
  /\ last'.kind = "message"
  /\ ~last'.bot
  /\ \A r \in settings : r.guildId # last'.guildId

\* No conversation of the channel and the author of the message exists.
NoConversationYet ==
  \A i \in 1..Len(conversations) :
    ~(conversations[i].channelId = last'.channelId
        /\ conversations[i].userId = last'.userId)

\* The step creates the settings row with the documented defaults.
DefaultsCreated ==
  \E r \in settings' :
    /\ r.guildId = last'.guildId
    /\ \A q \in settings' : q.guildId = r.guildId => q = r
    /\ r.responseLength = "medium"
    /\ r.personality = "helpful"
    /\ r.codeFormat = TRUE
    /\ r.channelMode = "all"
    /\ r.slashCommandMode = "disabled"
    /\ r.allowedChannels = <<>>
    /\ r.activatedChannels = <<>>

\* The step admits the message, creates the conversation of the channel and
\* the author, stores one user message before its one completion call and
\* calls with a context of just that message.
FreshTurn ==
  /\ last'.admitted
  /\ Len(conversations') = Len(conversations) + 1
  /\ conversations'[Len(conversations')].channelId = last'.channelId
  /\ conversations'[Len(conversations')].userId = last'.userId
  /\ Len(last'.stored) = 2
  /\ last'.stored[1].role = "user"
  /\ last'.stored[1].conversationId = conversations'[Len(conversations')].id
  /\ last'.stored[2].role = "assistant"
  /\ Len(last'.calls) = 1
  /\ last'.context = <<last'.stored[1]>>
  /\ messages' = messages \o last'.stored

\* C15 as stated: the first non-bot plain message of a guild without
\* settings row creates the row with the defaults, is admitted, creates the
\* conversation of the (channel, user) pair, stores exactly one user message
\* before the completion call and invokes the Completion Service once with
\* a context of just that message.
C15_Original ==
  [][FirstContact => (DefaultsCreated /\ FreshTurn)]_vars

\* C15 (amended): the first non-bot plain message of a guild without
\* settings row creates the row with the defaults and is admitted; when no
\* conversation of the (channel, user) pair exists yet (the author ran no
\* /ai turn on the channel before) it creates the conversation, stores
\* exactly one user message before the completion call and invokes the
\* Completion Service once with a context of just that message.
C15_FirstContact ==
  [][FirstContact =>
       /\ DefaultsCreated
       /\ last'.admitted
       /\ NoConversationYet => FreshTurn]_vars

\* The first event of a guild was a plain message: the defaults row, one
\* conversation and the two messages of the turn exist, and the context of
\* the call was the user message alone.
C15_Witness ==
  /\ PlainMessage
  /\ last.admitted
  /\ Len(conversations) = 1
  /\ Len(messages) = 2
  /\ last.stored = messages
  /\ last.context = <<messages[1]>>
  /\ Len(last.calls) = 1
  /\ Seen.slashCommandMode = "disabled"
  /\ Seen \in settings

\* The number of occurrences of x in list.
Occurrences(list, x) == Cardinality({i \in 1..Len(list) : list[i] = x})

\* No activated list holds a channel twice.
NoDuplicates ==
  \A r \in settings : \A c \in Channels : Occurrences(r.activatedChannels, c) <= 1

\* After /activate the channel occurs exactly once in the activated list;
\* a second /activate on an activated channel leaves the list as it was.
ActivateOnce ==
  last.kind = "activate" =>
    LET now == getSettingsByGuildId(settings, last.guildId)
    IN  /\ now # <<>>
        /\ Occurrences(now[1].activatedChannels, last.channelId) = 1
        /\ (last.seen # <<>> /\ last.channelId \in ListSet(Seen.activatedChannels)) =>
              now[1].activatedChannels = Seen.activatedChannels

\* The reply of a /deactivate that went through.
DeactivatedNotice == <<Notice("reply", "AI responses deactivated in this channel!")>>

\* C16 as stated: activating twice leaves one occurrence, the activated
\* list never holds duplicates, and /deactivate on a channel that is not in
\* the list leaves the settings unchanged and replies with the normal
\* acknowledgment, also when the guild has no settings row.
C16_Original ==
  /\ NoDuplicates
  /\ ActivateOnce
  /\ (last.kind = "deactivate"
        /\ (last.seen = <<>> \/ last.channelId \notin ListSet(Seen.activatedChannels))) =>
       /\ getSettingsByGuildId(settings, last.guildId) = last.seen
       /\ last.sent = DeactivatedNotice

\* C16 (amended): activating twice leaves one occurrence, the activated list
\* never holds duplicates, and /deactivate on a channel that is not in the
\* list leaves the settings unchanged; it replies with the normal
\* acknowledgment when the guild has a settings row, and with the notice
\* "No settings found for this server." (creating no row) when it has none.
C16_TogglesIdempotent ==
  /\ NoDuplicates
  /\ ActivateOnce
  /\ (last.kind = "deactivate"
        /\ (last.seen = <<>> \/ last.channelId \notin ListSet(Seen.activatedChannels))) =>
       /\ getSettingsByGuildId(settings, last.guildId) = last.seen
       /\ last.seen # <<>> => last.sent = DeactivatedNotice
       /\ last.seen = <<>> =>
            last.sent = <<Notice("reply", "No settings found for this server.")>>

\* /activate on a channel that is already activated, next to another
\* activated channel, in mode 'activated': the row is as it was.
C16_Witness ==
  /\ last.kind = "activate"
  /\ last.seen # <<>>
  /\ Seen.slashCommandMode = "activated"
  /\ Len(Seen.activatedChannels) = 2
  /\ last.channelId \in ListSet(Seen.activatedChannels)
  /\ getSettingsByGuildId(settings, last.guildId) = last.seen

\* The settings row of the guild of the last event, as it is now.
Now == getSettingsByGuildId(settings, last.guildId)[1]

\* C17: set-mode(m) is an idempotent upsert by guild identity: after it the
\* guild has a single settings row and its mode is m; the row is the
\* defaults row with mode m when the guild had none; applied where the mode
\* is m already it leaves every field of the row unchanged.
C17_SetModeIdempotent ==
  last.kind = "aimode" =>
    /\ Cardinality({r \in settings : r.guildId = last.guildId}) = 1
    /\ Now.slashCommandMode = last.arg
    /\ last.seen = <<>> =>
         Now = [id |-> Now.id,
                guildId |-> last.guildId, prefix |-> "", responseLength |-> "medium",
                personality |-> "helpful", codeFormat |-> TRUE,
                allowedChannels |-> <<>>, channelMode |-> "all",
                slashCommandMode |-> last.arg, activatedChannels |-> <<>>]
    /\ (last.seen # <<>> /\ Seen.slashCommandMode = last.arg) => Now = Seen

\* set-mode(required) was applied to a row whose mode was 'required' and
\* whose other fields are not the defaults: the row is as it was.
C17_Witness ==
  /\ last.kind = "aimode"
  /\ last.arg = "required"
  /\ last.seen # <<>>
  /\ Seen.slashCommandMode = "required"
  /\ Seen.personality = "creative"
  /\ Seen.activatedChannels # <<>>
  /\ Now = Seen

\* C18: set-mode on an existing settings row leaves the activated set, the
\* allowed set, the channel mode, the personality and the response length
\* unchanged; so when the mode is switched back to 'activated' every
\* channel of the activated set is still in it, and is admitted as it was
\* admitted in mode 'activated' before.
C18_SetModeFrame ==
  (last.kind = "aimode" /\ last.seen # <<>>) =>
    /\ Now.activatedChannels = Seen.activatedChannels
    /\ Now.allowedChannels = Seen.allowedChannels
    /\ Now.channelMode = Seen.channelMode
    /\ Now.personality = Seen.personality
    /\ Now.responseLength = Seen.responseLength
    /\ last.arg = "activated" =>
         \A c \in ListSet(Seen.activatedChannels) :
           /\ c \in ListSet(Now.activatedChannels)
           /\ ~Rule1Denies(Seen, c) => MessageCreateAdmits(Now, c)

\* The mode is switched back from 'required' to 'activated' on a row with
\* an activated channel, a restriction that allows it and a personality
\* that is not the default: the channel is admitted again.
C18_Witness ==
  /\ last.kind = "aimode"
  /\ last.arg = "activated"
  /\ last.seen # <<>>
  /\ Seen.slashCommandMode = "required"
  /\ Seen.activatedChannels = <<"c1">>
  /\ Seen.channelMode = "specific"
  /\ Seen.allowedChannels = <<"c1">>
  /\ Seen.personality = "creative"
  /\ Now.activatedChannels = <<"c1">>
  /\ MessageCreateAdmits(Now, "c1")
  /\ ~MessageCreateAdmits(Seen, "c1")

\* C14: in every reachable state there is at most one settings row per
\* guild identity, under every interleaving of the awaits of plain-message
\* events, set-mode, activate-channel, deactivate-channel and settings
\* upserts, two concurrent first contacts of a guild included.
C14_OneRowPerGuild ==
  \A g \in RaceGuildKeys : Cardinality({r \in settings : r.guildId = g}) <= 1

\* Two first messages of a guild were handled together: both found no row,
\* the insert of one created the row and the insert of the other threw.
C14_Witness ==
  \E p \in RaceProcs, q \in RaceProcs :
    /\ p # q
    /\ procs[p] = Idle(1, "message", FALSE)
    /\ procs[q] = Idle(1, "message", TRUE)
    /\ Cardinality({r \in settings : r.guildId = "DM"}) = 1

\* The text t occurs in the text s.
HasText(s, t) ==
  \E a \in 0..Len(s) :
    /\ a + Len(t) <= Len(s)
    /\ \A j \in 1..Len(t) : s[a + j] = t[j]

\* C19: generateAIResponse always returns a text; when the completion call
\* fails it returns one of the three fixed apologies: the rate-limit apology
\* when the failure is an Error whose message contains "rate limit",
\* otherwise the configuration apology when it contains "API key",
\* otherwise (also for a failure that is not an Error) the generic apology.
C19_Apologies ==
  result # <<>> =>
    /\ result[1].response # <<>>
    /\ call.outcome.kind # "text" =>
         result[1].response =
           IF call.outcome.kind = "error" /\ HasText(call.outcome.content, RateLimitNeedle)
             THEN RateLimitApology
           ELSE IF call.outcome.kind = "error" /\ HasText(call.outcome.content, ApiKeyNeedle)
             THEN ConfigurationApology
           ELSE UnknownErrorApology

\* An Error whose message contains "API key" and then "rate limit" is
\* answered with the rate-limit apology.
C19_Witness ==
  /\ result # <<>>
  /\ call.outcome.kind = "error"
  /\ HasText(call.outcome.content, ApiKeyNeedle)
  /\ HasText(call.outcome.content, RateLimitNeedle)
  /\ result[1].response = RateLimitApology

\* C20: the numeric parameters of the completion call depend on the
\* settings only: max_tokens is 500 for response length 'concise', 1500 for
\* 'detailed' and 1000 for every other value and for none; the temperature
\* is 0.8 for personality 'creative' and 0.7 for every other value and for
\* none.
C20_CallParameters ==
  result # <<>> =>
    /\ result[1].request.max_tokens =
         CASE call.responseLength = <<"concise">> -> 500
           [] call.responseLength = <<"detailed">> -> 1500
           [] OTHER -> 1000
    /\ result[1].request.temperature =
         IF call.personality = <<"creative">> THEN 8 ELSE 7

\* A call without a response length and with a personality no rule names,
\* whose completion fails: 1000 tokens at temperature 0.7.
C20_Witness ==
  /\ result # <<>>
  /\ call.responseLength = <<>>
  /\ call.personality = <<"Creative">>
  /\ call.outcome.kind = "thrown"
  /\ result[1].request.max_tokens = 1000
  /\ result[1].request.temperature = 7

\* The text is a line of at most maxLength characters followed by one
\* line of more than maxLength characters.
ShortThenLong ==
  LET lines == Split(text)
  IN  /\ Len(lines) = 2
      /\ Len(lines[1]) <= maxLength
      /\ Len(lines[2]) > maxLength

CeilDiv(n, m) == (n + m - 1) \div m

\* What the chunker keeps of a piece: its trimmed text, or nothing when
\* the piece is white space only.
Kept(piece) == IF Trim(piece) = <<>> THEN <<>> ELSE <<Trim(piece)>>

\* C28 as stated: a short line followed by a line of n > maxLength
\* characters gives the short line as its own chunk and then
\* ceil(n / maxLength) slices of the long line, every slice but the last
\* of exactly maxLength characters.
C28_Original ==
  (step # "input" /\ ShortThenLong) =>
     LET lines == Split(text)
         k     == CeilDiv(Len(lines[2]), maxLength)
     IN  /\ Len(chunks) = 1 + k
         /\ chunks[1] = lines[1]
         /\ \A i \in 1..(k - 1) :
              chunks[1 + i] = Substring(lines[2], (i - 1) * maxLength, i * maxLength)
         /\ Len(chunks[1 + k]) <= maxLength

\* C28 (amended): for a short line followed by a line of n > maxLength
\* characters the chunks are, in order, the trimmed short line unless it
\* is white space only, the ceil(n / maxLength) - 1 full slices of the long
\* line, each of exactly maxLength characters and untrimmed, and the
\* trimmed rest of the long line unless that rest is white space only.
C28_ShortThenLong ==
  (step # "input" /\ ShortThenLong) =>
     LET lines == Split(text)
         k     == CeilDiv(Len(lines[2]), maxLength)
     IN  chunks =
           Kept(lines[1])
             \o [i \in 1..(k - 1) |->
                   Substring(lines[2], (i - 1) * maxLength, i * maxLength)]
             \o Kept(SubstringFrom(lines[2], (k - 1) * maxLength))

\* The line 'a' followed by 3000 'b' was split at 1900 into chunks of 1,
\* 1900 and 1100 characters.
C28_Witness ==
  /\ step = "split"
  /\ text = LongLineText
  /\ maxLength = DiscordChunkLength
  /\ ShortThenLong
  /\ [i \in 1..Len(chunks) |-> Len(chunks[i])] = <<1, 1900, 1100>>

\* The concatenation of a sequence of sequences.
RECURSIVE Flatten(_)
Flatten(seqs) == IF seqs = <<>> THEN <<>> ELSE Head(seqs) \o Flatten(Tail(seqs))

\* A line cut only if it is longer than max: then into slices of max
\* characters and a shorter rest.
CutIfLonger(line, max) ==
  IF Len(line) <= max THEN <<line>>
  ELSE [i \in 1..CeilDiv(Len(line), max) |-> Substring(line, (i - 1) * max, i * max)]

\* The lines of a list that are not white space only, each trimmed.
TrimmedLines(lines) ==
  LET NotBlank(line) == Trim(line) # <<>>
      kept == SelectSeq(lines, NotBlank)
  IN  [i \in 1..Len(kept) |-> Trim(kept[i])]

\* The lines of the text, those longer than maxLength cut into slices.
TextLines ==
  LET lines == Split(text)
  IN  Flatten([i \in 1..Len(lines) |-> CutIfLonger(lines[i], maxLength)])

\* The lines of the chunks, chunk after chunk.
ChunkLines == Flatten([i \in 1..Len(chunks) |-> Split(chunks[i])])

\* C30: chunking prefers line boundaries: the lines of the chunks are the
\* lines of the text in order, only the lines longer than maxLength being
\* cut, so every line of at most maxLength characters lies whole in one
\* chunk, up to white space at its ends and lines of white space only.
C30_LineBoundaries ==
  step # "input" => TrimmedLines(ChunkLines) = TrimmedLines(TextLines)

\* A line of two or more characters that fits in a chunk was moved whole
\* to the next chunk although the chunk before it had room for its start.
C30_Witness ==
  /\ step = "split"
  /\ Len(text) > maxLength
  /\ \E i \in 2..Len(chunks) :
       /\ Len(chunks[i]) >= 2
       /\ chunks[i] \in ListSet(Split(text))
       /\ Len(chunks[i - 1]) + 1 < maxLength

\* The event handled last ran the pipeline of a turn, or began to.
TurnEvent ==
  /\ run.kind \in {"message", "ai"}
  /\ \E i \in 1..Len(run.made) : run.made[i].op = "getUserByDiscordId"

PersistenceOps ==
  {"getUserByDiscordId", "createUser", "getConversationByChannelAndUser",
   "createConversation", "createMessage", "getMessagesByConversation",
   "getSettingsByGuildId", "createOrUpdateSettings", "getBotStats",
   "updateBotStats"}

GatewayOps == {"reply", "send", "deferReply", "editReply", "followUp"}

\* The i-th call of the event threw.
Threw(i) == i \in 1..Len(run.made) /\ ~run.made[i].ok

\* The i-th call of the event is a persistence call that threw.
StorageThrew(i) == Threw(i) /\ run.made[i].op \in PersistenceOps

\* The completion call was not reached before the i-th call.
BeforeCompletion(i) ==
  \A j \in 1..(i - 1) : run.made[j].op # "generateAIResponse"

\* The calls the event made after its i-th.
MadeAfter(i) == SubSeq(run.made, i + 1, Len(run.made))

\* C21: if a persistence call fails during a turn before the completion
\* call (get or create user, get or create conversation, storing the user
\* message, loading the message list, loading the settings), the turn makes
\* no completion call and stores no assistant message.
C21_AbortBeforeCompletion ==
  \A i \in 1..Len(run.made) :
    (run.kind \in {"message", "ai"} /\ StorageThrew(i) /\ BeforeCompletion(i)) =>
       /\ run.calls = <<>>
       /\ \A j \in 1..Len(run.made) : run.made[j].op # "generateAIResponse"
       /\ \A k \in 1..Len(run.stored) : run.stored[k].role # "assistant"
       /\ \A k \in 1..Len(messages) :
            messages[k].role = "assistant" => k <= Len(messages) - Len(run.stored)

\* An /ai turn stored the user message, then the load of the settings
\* threw: no completion request was made.
C21_Witness ==
  /\ run.kind = "ai"
  /\ \E i \in 1..Len(run.made) :
       /\ StorageThrew(i)
       /\ run.made[i].op = "getSettingsByGuildId"
       /\ BeforeCompletion(i)
  /\ Len(run.stored) = 1
  /\ run.stored[1].role = "user"
  /\ run.calls = <<>>

\* C22 as stated: when a persistence call fails while a plain message is
\* handled, nothing is sent to the gateway after it: log output only.
C22_Original ==
  \A i \in 1..Len(run.made) :
    (run.kind = "message" /\ StorageThrew(i)) =>
       \A j \in 1..Len(MadeAfter(i)) : MadeAfter(i)[j].op \notin GatewayOps

\* The i-th call of a message event is one of the listener's own two:
\* the first load of the settings, or the creation of the defaults.
InListener(i) == i = 1 \/ run.made[i].op = "createOrUpdateSettings"

\* C22 (amended): when a persistence call fails while a plain message is
\* handled, the pipeline is aborted.  If the call is the listener's load
\* or creation of the settings, the error is logged and nothing is sent.
\* If it is a call of handleMessage, the error is logged and one reply is
\* attempted, the apology "Sorry, I encountered an error while processing
\* your message. Please try again later."; if that reply fails too, that
\* is logged and nothing more is sent.
C22_StorageFailureReply ==
  \A i \in 1..Len(run.made) :
    (run.kind = "message" /\ StorageThrew(i)) =>
       IF InListener(i)
         THEN MadeAfter(i) = <<LogCall>>
         ELSE \/ MadeAfter(i) =
                   <<LogCall, Made("reply", HandlerErrorReply, "", TRUE)>>
              \/ MadeAfter(i) =
                   <<LogCall, Made("reply", HandlerErrorReply, "", FALSE), LogCall>>

\* Storing the user message of a plain message threw, and the apology was
\* sent as a reply.
C22_Witness ==
  /\ run.kind = "message"
  /\ \E i \in 1..Len(run.made) :
       /\ StorageThrew(i)
       /\ run.made[i].op = "createMessage"
       /\ run.stored = <<>>
       /\ MadeAfter(i) = <<LogCall, Made("reply", HandlerErrorReply, "", TRUE)>>

\* The number of completion calls of the event.
CompletionCalls ==
  Cardinality({i \in 1..Len(run.made) : run.made[i].op = "generateAIResponse"})

C24_NothingEscapes ==
  /\ ~run.escaped
  /\ \A i \in 1..Len(run.made) :
       Threw(i) => \E j \in 1..Len(MadeAfter(i)) : MadeAfter(i)[j] = LogCall

\* An /ai turn failed, the edit with the apology threw, and the edit of
\* handleSlashCommand threw too: three calls threw and none left the unit.
C24_Witness ==
  /\ run.kind = "ai"
  /\ Cardinality({i \in 1..Len(run.made) : Threw(i)}) = 3
  /\ run.made[Len(run.made)] = LogCall
  /\ ~run.escaped

\* interaction.replied or interaction.deferred before the i-th call.
Acknowledged(i) ==
  Replied(SubSeq(run.made, 1, i - 1)) \/ Deferred(SubSeq(run.made, 1, i - 1))

\* C25: no command is acknowledged twice: reply and deferReply are only
\* called on an interaction neither replied nor deferred, at most one of
\* them returns, and once the interaction is acknowledged a failure path
\* sends nothing but edits of that reply.
C25_NoSecondAcknowledgment ==
  run.kind \notin {"none", "message"} =>
     /\ \A i \in 1..Len(run.made) :
          run.made[i].op \in {"reply", "deferReply"} => ~Acknowledged(i)
     /\ Cardinality({i \in 1..Len(run.made) :
                       run.made[i].op \in {"reply", "deferReply"} /\ run.made[i].ok}) <= 1
     /\ \A i \in 1..Len(run.made) :
          (run.made[i].op \in GatewayOps /\ Acknowledged(i)
             /\ \E f \in 1..(i - 1) : Threw(f))
            => run.made[i].op = "editReply"

\* A deferred /ai turn failed, its apology edit threw, and
\* handleSlashCommand edited the deferred reply instead of replying again.
C25_Witness ==
  /\ run.kind = "ai"
  /\ Deferred(run.made)
  /\ \E i \in 1..Len(run.made) :
       /\ run.made[i] = Made("editReply", AICommandErrorReply, "", FALSE)
       /\ run.made[Len(run.made)] = Made("editReply", <<>>, SlashCommandErrorNotice, TRUE)
       /\ Len(run.made) = i + 2

\* The entries of the guild in the Map.
EntriesOf(map, guildId) == {e \in map : e[1] = guildId}

\* Handler p has just run the named voice command up to its reply.
VoiceRan(p, op) ==
  /\ procs[p].pc = "idle"
  /\ procs'[p].pc = "reply"
  /\ procs'[p].op = op

\* C29: the voice-connection registry holds at most one connection per
\* guild in every reachable state, under any interleaving of join-voice and
\* leave-voice commands and disconnection events: join-voice inserts only
\* when the guild has no connection and otherwise leaves the registry
\* unchanged, leave-voice leaves the guild without entry, and so does a
\* disconnection event.
C29_OneConnectionPerGuild ==
  [][/\ \A g \in VoiceGuilds : Cardinality(EntriesOf(voiceConnections', g)) <= 1
     /\ \A p \in RaceProcs :
          VoiceRan(p, "joinvoice") =>
            LET g == procs'[p].ins.guildId
            IN  \/ voiceConnections' = voiceConnections
                \/ /\ EntriesOf(voiceConnections, g) = {}
                   /\ getVoiceConnection(voiceLibrary, g) = <<>>
                   /\ \E e \in voiceConnections' :
                        /\ e[1] = g
                        /\ voiceConnections' = voiceConnections \cup {e}
     /\ \A p \in RaceProcs :
          (VoiceRan(p, "joinvoice") /\ procs'[p].existing) =>
             voiceConnections' = voiceConnections
     /\ \A p \in RaceProcs :
          (VoiceRan(p, "leavevoice") /\ procs'[p].ins.guildId # NoGuild) =>
             EntriesOf(voiceConnections', procs'[p].ins.guildId) = {}
     /\ \A c \in voiceLibrary.tracked :
          (c.status = "ready"
             /\ [c EXCEPT !.status = "disconnected"] \in voiceLibrary'.tracked) =>
             EntriesOf(voiceConnections', c.guildId) = {}
    ]_vars

\* Two join-voice commands for the same guild are both at their reply: the
\* first inserted the connection, the second found it, and the registry
\* holds the one entry.
C29_Witness ==
  /\ procs["p1"].pc = "reply" /\ procs["p1"].op = "joinvoice"
  /\ procs["p2"].pc = "reply" /\ procs["p2"].op = "joinvoice"
  /\ procs["p1"].ins.guildId = "g1" /\ procs["p2"].ins.guildId = "g1"
  /\ ~procs["p1"].existing
  /\ procs["p2"].existing
  /\ Cardinality(EntriesOf(voiceConnections, "g1")) = 1

\* The sends of the delivery, in the order they were made.
Pieces == SelectSeq(run.made, LAMBDA c : c.op # "deferReply")

\* The operation that carries the i-th piece.
PieceOp(i) ==
  IF run.kind = "message" THEN (IF i = 1 THEN "reply" ELSE "send")
  ELSE (IF i = 1 THEN "editReply" ELSE "followUp")

\* C26: a response of at most 1900 characters is delivered whole as one
\* reply (for /ai, one edit of the deferred reply); a longer response is
\* delivered as chunk 0 in the reply or edit and the later chunks as
\* follow-up messages in chunk order, a piece being sent only after every
\* earlier send returned, all of them when none throws, and no piece has
\* more than 1900 characters.
C26_Delivery ==
  (run.kind \in {"message", "ai"}
     /\ (run.kind = "ai" => run.made[1] = Awaited("deferReply"))) =>
    LET parts == IF Len(run.response) <= 1900 THEN <<run.response>>
                 ELSE splitMessage(run.response, DiscordChunkLength)
    IN  /\ Len(Pieces) <= Len(parts)
        /\ Len(Pieces) >= 1
        /\ \A i \in 1..Len(Pieces) :
             /\ Pieces[i].op = PieceOp(i)
             /\ Pieces[i].content = parts[i]
             /\ Len(Pieces[i].content) <= 1900
             /\ i < Len(Pieces) => Pieces[i].ok
        /\ (\A i \in 1..Len(Pieces) : Pieces[i].ok) => Len(Pieces) = Len(parts)

\* A response of 3002 characters went out in three pieces: the reply and
\* two follow-ups, all returned.
C26_Witness ==
  /\ run.kind = "message"
  /\ Len(run.response) > 1900
  /\ Len(Pieces) = 3
  /\ \A i \in 1..3 : Pieces[i].ok
  /\ Pieces[1].op = "reply" /\ Pieces[2].op = "send" /\ Pieces[3].op = "send"

\* The positions in the table of the conversations of the pair.
RowsOf(tbl, channelId, userId) ==
  {i \in 1..Len(tbl) : tbl[i].channelId = channelId /\ tbl[i].userId = userId}

\* The pair of the conversation with the id.
PairOf(tbl, id) == <<tbl[id].channelId, tbl[id].userId>>

\* C27: conversations are created lazily and looked up most-recent-first.
\* The lookup of a turn returns no conversation when the pair has none and
\* otherwise the one created last; a conversation is created only by a turn
\* whose lookup found none, for its own pair; both messages of the turn go
\* to the conversation the turn looked up or created; and while the turns
\* are handled one after another each pair has at most one conversation
\* and all its messages are in it.
C27_LazyMostRecent ==
  [][/\ \A p \in RaceProcs :
          (procs[p].pc = "lookup" /\ procs'[p].pc # "lookup") =>
            LET rows == RowsOf(conversations, procs'[p].channelId, procs'[p].userId)
            IN  /\ conversations' = conversations
                /\ rows = {} => procs'[p].conversation = <<>> /\ procs'[p].pc = "create"
                /\ rows # {} =>
                     /\ procs'[p].pc = "store"
                     /\ \E i \in rows :
                          /\ \A j \in rows : j <= i
                          /\ procs'[p].conversation = <<conversations[i]>>
     /\ Len(conversations') > Len(conversations) =>
          \E p \in RaceProcs :
            /\ procs[p].pc = "create"
            /\ procs'[p].pc = "store"
            /\ \A i \in RowsOf(conversations, procs[p].channelId, procs[p].userId) :
                 i > procs[p].seen
            /\ conversations' = Append(conversations, procs'[p].conversation[1])
            /\ procs'[p].conversation[1].channelId = procs[p].channelId
            /\ procs'[p].conversation[1].userId = procs[p].userId
     /\ Len(messages') > Len(messages) =>
          \E p \in RaceProcs :
            /\ procs[p].pc \in {"store", "answer"}
            /\ procs'[p].pc # procs[p].pc
            /\ Len(messages') = Len(messages) + 1
            /\ messages'[Len(messages')].conversationId = procs[p].conversation[1].id
            /\ PairOf(conversations, procs[p].conversation[1].id)
                 = <<procs[p].channelId, procs[p].userId>>
     /\ run'.kind = "serial" =>
          /\ \A c \in ConvChannels, u \in UserIds :
               Cardinality(RowsOf(conversations', c, u)) <= 1
          /\ \A i, j \in 1..Len(messages') :
               PairOf(conversations', messages'[i].conversationId)
                   = PairOf(conversations', messages'[j].conversationId)
                 => messages'[i].conversationId = messages'[j].conversationId
    ]_vars

\* Two first turns of one pair ran interleaved and each created a
\* conversation; a later turn of the pair looked up and got the second.
C27_Witness ==
  /\ Len(conversations) = 2
  /\ PairOf(conversations, 1) = PairOf(conversations, 2)
  /\ \E p \in RaceProcs :
       /\ procs[p].pc = "answer"
       /\ procs[p].seen = 2
       /\ procs[p].conversation = <<conversations[2]>>
       /\ messages[Len(messages)].conversationId = 2

\* The text without its white space.
NoWhitespace(s) == SelectSeq(s, LAMBDA c : c \notin Whitespace)

\* C31: chunking loses no content: the chunks concatenated in order, white
\* space removed, are the text with its white space removed, so that no
\* other character is dropped, duplicated or moved.
C31_NoContentLost ==
  step # "input" => NoWhitespace(Flatten(chunks)) = NoWhitespace(text)

\* A line longer than maxLength was sliced and what was left of it went
\* into one chunk with the line after it.
C31_Witness ==
  /\ step = "split"
  /\ \E l \in ListSet(Split(text)) : Len(l) > maxLength
  /\ \E i \in 2..Len(chunks) :
       /\ Len(chunks[i - 1]) = maxLength
       /\ \E k \in 2..(Len(chunks[i]) - 1) :
            /\ chunks[i][k] = "\n"
            /\ chunks[i][k - 1] = chunks[i - 1][1]
            /\ chunks[i][k - 1] \notin Whitespace
            /\ chunks[i][k + 1] \notin Whitespace

\* The clauses the rule names, by the value that selects them.
NamedPersonalities == {<<"friendly">>, <<"technical">>, <<"creative">>}
NamedLengths == {<<"concise">>, <<"detailed">>}

\* C32: the system instruction is the base clause, then one personality
\* clause, then one length clause: every personality but friendly,
\* technical and creative, and none, selects the helpful clause, every
\* length but concise and detailed, and none, selects the balanced clause,
\* and the named values select clauses of their own; a completion that
\* returns no text is answered with the could-not-generate text.
C32_SystemInstruction ==
  result # <<>> =>
    LET system == result[1].request.messages[1].system
        helpful == "Be helpful, clear, and informative. "
        medium == "Provide balanced responses that are informative but not overly long."
    IN  /\ system = "You are a helpful AI assistant in a Discord server. "
                       \o PersonalityClause(call.personality)
                       \o LengthClause(call.responseLength)
        /\ call.personality \notin NamedPersonalities
             <=> PersonalityClause(call.personality) = helpful
        /\ call.responseLength \notin NamedLengths
             <=> LengthClause(call.responseLength) = medium
        /\ \A p, q \in NamedPersonalities :
             PersonalityClause(p) = PersonalityClause(q) => p = q
        /\ \A l, m \in NamedLengths : LengthClause(l) = LengthClause(m) => l = m
        /\ \A i \in 2..Len(result[1].request.messages) :
             result[1].request.messages[i].role # "system"
        /\ (call.outcome.kind = "text" /\ call.outcome.content = <<>>) =>
             result[1].response = NoResponseText
        /\ (call.outcome.kind = "text" /\ call.outcome.content # <<>>) =>
             result[1].response = call.outcome.content

\* A call with a personality and a length that no rule names, whose
\* completion returns no text.
C32_Witness ==
  /\ result # <<>>
  /\ call.personality = <<"Creative">>
  /\ call.responseLength = <<"long">>
  /\ call.outcome = [kind |-> "text", content |-> <<>>]
  /\ result[1].response = NoResponseText
  /\ result[1].request.messages[1].system =
       "You are a helpful AI assistant in a Discord server. Be helpful, clear, and informative. Provide balanced responses that are informative but not overly long."

\* C33: a plain message whose author is a bot changes nothing, whatever
\* the settings of the guild: no settings row, user, conversation or
\* message is stored, the counters stay as they are, no completion call is
\* made and nothing is sent.
C33_BotMessageIgnored ==
  [][(last'.kind = "message" /\ last'.bot) =>
       /\ settings' = settings
       /\ users' = users
       /\ conversations' = conversations
       /\ messages' = messages
       /\ botStats' = botStats
       /\ last'.calls = <<>>
       /\ last'.sent = <<>>
       /\ last'.stored = <<>>
       /\ ~last'.admitted
    ]_vars

\* A bot wrote in a channel whose settings admit plain messages: nothing
\* is stored.
C33_Witness ==
  /\ last.kind = "message"
  /\ last.bot
  /\ messages = <<>>
  /\ \E s \in settings :
       /\ s.guildId = last.guildId
       /\ MessageCreateAdmits(s, last.channelId)

\* C34 as stated: whatever the interleaving of the turns of a pair, the
\* pair has at most one conversation.
C34_Original ==
  \A c \in ConvChannels, u \in UserIds :
    Cardinality(RowsOf(conversations, c, u)) <= 1

\* C34, amended: a pair gets a second conversation only from a turn whose
\* lookup ran before the first was created, so it has at most as many
\* conversations as there are turns under way at once and one while the
\* turns run one after another; a turn whose lookup follows a creation
\* creates nothing and stores its messages in the conversation created
\* last before its lookup.
C34_ConversationsPerPair ==
  [][/\ \A c \in ConvChannels, u \in UserIds :
          /\ Cardinality(RowsOf(conversations', c, u)) <= Cardinality(RaceProcs)
          /\ run'.kind = "serial" => Cardinality(RowsOf(conversations', c, u)) <= 1
     /\ \A p \in RaceProcs :
          (procs[p].pc = "create" /\ procs'[p].pc = "store") =>
             \A i \in RowsOf(conversations, procs[p].channelId, procs[p].userId) :
               i > procs[p].seen
     /\ \A p \in RaceProcs :
          (procs[p].pc \in {"store", "answer"} /\ procs'[p].pc # procs[p].pc) =>
             LET mine == procs[p].conversation[1].id
                 rows == RowsOf(conversations, procs[p].channelId, procs[p].userId)
             IN  /\ messages'[Len(messages')].conversationId = mine
                 /\ mine \in rows
                 /\ \A i \in rows : i <= procs[p].seen => i <= mine
    ]_vars

\* Two turns of one pair overlapped, each created a conversation, and the
\* later turns all went to the one created last.
C34_Witness ==
  /\ Len(conversations) = 2
  /\ PairOf(conversations, 1) = PairOf(conversations, 2)
  /\ \A p \in RaceProcs : procs[p].pc = "idle"
  /\ Cardinality({i \in 1..Len(messages) : messages[i].role = "assistant"}) = 3
  /\ messages[Len(messages)].conversationId = 2

\* The activated channels of the row of a guild.
ActivatedOf(tbl, guildId) ==
  LET s == getSettingsByGuildId(tbl, guildId)
  IN  IF s = <<>> THEN {}
      ELSE {s[1].activatedChannels[i] : i \in DOMAIN s[1].activatedChannels}

\* C35: concurrent settings updates of a guild all take effect: the write
\* of an activate-channel removes no activated channel and adds at most
\* its own, the write of a deactivate-channel adds none, removes at most
\* its own and leaves the mode as it is, and the write of a set-mode
\* leaves the activated channels as they are, so that no operation puts
\* back a value it read before another operation wrote.
C35_UpdatesTakeEffect ==
  [][\A p \in RaceProcs :
       (procs[p].pc = "write" /\ procs'[p].pc = "idle" /\ ~procs'[p].failed) =>
          LET g      == procs[p].ins.guildId
              before == ActivatedOf(settings, g)
              after  == ActivatedOf(settings', g)
          IN  /\ procs[p].op = "activate" =>
                   /\ before \subseteq after
                   /\ Cardinality(after \ before) <= 1
              /\ procs[p].op = "deactivate" =>
                   /\ after \subseteq before
                   /\ Cardinality(before \ after) <= 1
                   /\ ModeOf(settings', g) = ModeOf(settings, g)
              /\ procs[p].op = "aimode" => after = before
    ]_vars

\* The sends that deliver the response of the turn handled last.
ResponseSends ==
  IF run.kind = "message" THEN Deliver(run.response, "reply", "send")
  ELSE Deliver(run.response, "editReply", "followUp")

\* The calls up to the k-th end with the whole delivery, every send of it
\* returned.
DeliveredBy(k) ==
  LET n == Len(ResponseSends)
  IN  /\ run.response # <<>>
      /\ k >= n
      /\ \A i \in 1..n : run.made[k - n + i] = GatewayCall(ResponseSends[i])

\* The call is a send of one of the two apologies of a turn.
IsApology(c) ==
  /\ c.op \in {"reply", "editReply", "followUp"}
  /\ c.content \in {HandlerErrorReply, AICommandErrorReply}

\* C36: once the reply and every follow-up chunk of a turn are sent, the
\* handler sends no apology and edits none over the reply, whichever call
\* fails afterwards.
C36_NoApologyAfterDelivery ==
  run.kind \in {"message", "ai"} =>
    \A k \in 1..Len(run.made) :
      DeliveredBy(k) =>
        \A j \in (k + 1)..Len(run.made) : ~IsApology(run.made[j])

\* The handler of the message handled last sent the whole response, or the
\* apology.
Answered ==
  \/ \E k \in 1..Len(run.made) : DeliveredBy(k)
  \/ \E j \in 1..Len(run.made) : run.made[j].ok /\ IsApology(run.made[j])

\* C37: a plain message that no bot wrote and that the policy admits is
\* answered in the end: if every call returns or fails and the sends
\* return, the handler of the message ends, and by then it has sent the
\* generated response or the apology.
C37_EventuallyAnswered ==
  \A n \in 0..MaxLiveTurns :
    (procs[LiveProc].admitted /\ procs[LiveProc].turn = n)
      ~> (/\ procs[LiveProc].pc = "idle"
          /\ procs[LiveProc].turn = n + 1
          /\ run.kind = "message"
          /\ Answered)

\* An admitted message whose handler ended after a storage call threw and
\* the apology was sent.
C37_Witness ==
  /\ procs[LiveProc].pc = "idle"
  /\ procs[LiveProc].turn = MaxLiveTurns
  /\ \E i \in 1..Len(run.made) :
       /\ ~run.made[i].ok
       /\ run.made[i].op = "createMessage"
       /\ \E j \in (i + 1)..Len(run.made) :
            run.made[j].ok /\ IsApology(run.made[j])

\* The handler reads its context and builds its request in this step.
Reads(p) == procs[p].pc = "read" /\ procs'[p].pc = "answer"

\* The last entry of the request the handler has built.
LastEntry(pr) == pr.request[Len(pr.request)]

\* C38 as stated: whatever the interleaving, the prompt sequence of a turn
\* ends with an entry of role user that holds the prompt of the turn.
C38_Original ==
  [][\A p \in RaceProcs :
       Reads(p) =>
         /\ LastEntry(procs'[p]).role = "user"
         /\ LastEntry(procs'[p]).content = procs[p].content
    ]_vars

\* C38, amended: whatever the interleaving, the prompt sequence of a turn
\* ends with an entry that holds the text of the prompt of the turn.  The
\* entry has role user when the turns run one after another, and whenever
\* it has not, it is a response that another turn stored after this turn
\* stored its message and whose text is the text of the prompt.
C38_PromptLast ==
  [][\A p \in RaceProcs :
       Reads(p) =>
         /\ LastEntry(procs'[p]).content = procs[p].content
         /\ run.kind = "serial" => LastEntry(procs'[p]).role = "user"
         /\ LastEntry(procs'[p]).role # "user" =>
              \E i \in (procs[p].stored + 1)..Len(messages) :
                /\ messages[i].conversationId = procs[p].conversation[1].id
                /\ messages[i].role = "assistant"
                /\ messages[i].content = procs[p].content
                /\ \A j \in (i + 1)..Len(messages) :
                     messages[j].conversationId # messages[i].conversationId
    ]_vars

\* A turn stored the prompt 'ok', another turn then stored its response
\* 'ok', and the request of the first ends with that response.
C38_Witness ==
  \E p \in RaceProcs :
    /\ procs[p].pc = "answer"
    /\ LastEntry(procs[p]).role = "assistant"
    /\ LastEntry(procs[p]).content = procs[p].content
    /\ messages[procs[p].stored].content = procs[p].content

====
